---- MODULE Spec2Model ----
(***************************************************************************)
(* Model of the Zigbee host controller core of urmzd/homai: the ASH link   *)
(* layer (pkg/zigbee/ash.go), the EZSP layer (pkg/zigbee/ezsp.go), the ZCL *)
(* command builders and the controller session (pkg/zigbee/controller.go). *)
(*                                                                         *)
(* Bytes are integers 0..255, byte slices are sequences of bytes, uint16   *)
(* values are integers 0..65535.                                           *)
(***************************************************************************)
EXTENDS Integers, Sequences, FiniteSets, TLC

VARIABLES
    state,      \* ASHLayer.state
    sendSeq,    \* ASHLayer.sendSeq
    ackNum,     \* ASHLayer.ackNum
    recvSeq,    \* ASHLayer.recvSeq
    pending,    \* ASHLayer.pending: map seq -> framed bytes
    recvChan,   \* ASHLayer.recvChan: buffered channel of payloads
    connChan,   \* ASHLayer.connChan: number of buffered signals (capacity 1)
    stopped,    \* ASHLayer.stopped (stopChan is closed exactly when it is TRUE)
    reader,     \* the ASH readLoop goroutine: "none", "running", "exited"
    caller,     \* the goroutine inside Connect/Reset: "idle", "connect", "reset", "failed"
    tx,         \* the writes the last step made to the serial transport, in order
    last,       \* the operation the last step performed, with its input and result
    nAccepted,  \* history: number of DATA frames accepted so far
    lastTaken,  \* history: acceptance number of the payload the EZSP reader took last
    nSent,      \* history: number of SendData calls that allocated a sequence number
    nRx,        \* history: number of frames handed to processFrame
    arg,        \* input of the pure function under evaluation
    res,        \* its result
    serialOpen,     \* SerialPort: FALSE once Close has been called on it
    ezspSeq,        \* EZSPLayer.seq
    extendedFormat, \* EZSPLayer.extendedFormat
    responseChan,   \* EZSPLayer.responseChan: map frame id -> response channel
    sinks,          \* the response channels that exist: channel -> buffered responses (capacity 1)
    ezspStopped,    \* EZSPLayer.stopChan is closed
    th,             \* the client goroutines: operation in progress, position, locals
    connected,      \* Controller.connected
    devices,        \* Controller.devices: map IEEE string -> *KnownDevice
    objs,           \* the KnownDevice structs that are reachable: pointer -> fields
    zclSeqCounter,  \* zclSeqCounter
    hlast,          \* what the last step did above the ASH layer
    initOk,         \* history: initStack has returned nil
    nCh,            \* history: number of response channels made so far
    nObj,           \* history: number of KnownDevice structs allocated so far
    nOps,           \* history: number of client operations started
    nCb,            \* history: number of frames given to the callback handler
    ncp,            \* the commands the NCP has received and not answered
    nTo,            \* history: number of SendCommand calls that timed out
    ezspReaderExited, \* the EZSP readLoop goroutine has returned
    subscribers,    \* Controller.subscribers: the registered channels, in order
    subChans,       \* the subscriber channels made so far: channel -> buffer, closed flag
    clock,          \* the readings of time.Now() taken for event timestamps so far
    cache,          \* Validator.cache: map schema bytes -> compiled schema
    lk,             \* where each task stands in the lock operations of its code path
    wire,           \* frm_num of the DATA frames written to the serial port since the last RSTACK
    buf             \* readLoop's accumulator: the bytes read since the last frame boundary

hostVars == <<serialOpen, ezspSeq, extendedFormat, responseChan, sinks, ezspStopped, th,
              connected, devices, objs, zclSeqCounter, hlast, initOk, nCh, nObj, nOps, nCb,
              ncp, nTo, ezspReaderExited, subscribers, subChans, clock, cache, lk, wire, buf>>

\* the variables above the ASH layer that a step of the ASH layer alone leaves as they are
hostState == <<serialOpen, ezspSeq, extendedFormat, responseChan, sinks, ezspStopped, th,
               connected, devices, objs, zclSeqCounter, initOk, nCh, nObj, nOps, nCb,
              ncp, nTo, ezspReaderExited, subscribers, subChans, clock, cache, lk, wire, buf>>

vars == <<state, sendSeq, ackNum, recvSeq, pending, recvChan, connChan, stopped,
          reader, caller, tx, last, nAccepted, lastTaken, nSent, nRx, arg, res, hostVars>>

ashVars == <<state, sendSeq, ackNum, recvSeq, pending, recvChan, connChan, stopped,
             reader, caller, tx, last, nAccepted, lastTaken, nSent, nRx>>

----------------------------------------------------------------------------
(* Protocol constants, ash.go:12-32                                        *)

ashFlagByte == 126
ashEscapeByte == 125
ashXON == 17
ashXOFF == 19
ashFlipBit == 32
ashCancelByte == 26
ashMaxFrameLen == 256
ashSubstitute == 24

ashFrameData == 0
ashFrameACK == 128
ashFrameNAK == 160
ashFrameRST == 192
ashFrameRSTACK == 193
ashFrameERROR == 194

ashStateDisconnected == "Disconnected"
ashStateResetPending == "ResetPending"
ashStateConnected == "Connected"

\* capacity of recvChan, make(chan []byte, 16)
recvChanCap == 16
\* capacity of connChan, make(chan struct{}, 1)
connChanCap == 1

\* largest uint8
MaxUint8 == 255

----------------------------------------------------------------------------
(* Integer helpers for Go's fixed-width operators                          *)

\* a ^ b on four-bit values, bit by bit
XorNibble[a \in 0..15, b \in 0..15] ==
    ((a + b) % 2)
    + 2 * (((a \div 2) + (b \div 2)) % 2)
    + 4 * (((a \div 4) + (b \div 4)) % 2)
    + 8 * (((a \div 8) + (b \div 8)) % 2)

\* a ^ b on non-negative integers, four bits at a time
Xor[a \in Nat, b \in Nat] ==
    IF a = 0 THEN b
    ELSE IF b = 0 THEN a
    ELSE XorNibble[a % 16, b % 16] + 16 * Xor[a \div 16, b \div 16]

\* x & 0x07
And7(x) == x % 8

\* byte(crc >> 8), byte(crc & 0xFF)
HiByte(w) == (w \div 256) % 256
LoByte(w) == w % 256

----------------------------------------------------------------------------
(* Pure functions of ash.go                                                *)

IsReserved(b) ==
    \/ b = ashFlagByte
    \/ b = ashEscapeByte
    \/ b = ashXON
    \/ b = ashXOFF
    \/ b = ashSubstitute
    \/ b = ashCancelByte

\* a stuffing loop that forgets the cancel byte
IsReservedNoCancel(b) ==
    \/ b = ashFlagByte
    \/ b = ashEscapeByte
    \/ b = ashXON
    \/ b = ashXOFF
    \/ b = ashSubstitute

\* the stuffing of data[k..]
RECURSIVE ashStuffFrom(_, _)
ashStuffFrom(data, k) ==
    IF k > Len(data) THEN <<>>
    ELSE (IF IsReserved(data[k])
          THEN <<ashEscapeByte, Xor[data[k], ashFlipBit]>>
          ELSE <<data[k]>>) \o ashStuffFrom(data, k + 1)

RECURSIVE ashStuffNoCancelFrom(_, _)
ashStuffNoCancelFrom(data, k) ==
    IF k > Len(data) THEN <<>>
    ELSE (IF IsReservedNoCancel(data[k])
          THEN <<ashEscapeByte, Xor[data[k], ashFlipBit]>>
          ELSE <<data[k]>>) \o ashStuffNoCancelFrom(data, k + 1)

ashStuffNoCancel(data) == ashStuffNoCancelFrom(data, 1)

ashStuff(data) == ashStuffFrom(data, 1)

\* the unstuffing of data[k..] when the loop reaches k with this value of escaped
RECURSIVE ashUnstuffFrom(_, _, _)
ashUnstuffFrom(data, k, escaped) ==
    IF k > Len(data) THEN <<>>
    ELSE IF escaped
         THEN <<Xor[data[k], ashFlipBit]>> \o ashUnstuffFrom(data, k + 1, FALSE)
         ELSE IF data[k] = ashEscapeByte
              THEN ashUnstuffFrom(data, k + 1, TRUE)
              ELSE <<data[k]>> \o ashUnstuffFrom(data, k + 1, FALSE)

ashUnstuff(data) == ashUnstuffFrom(data, 1, FALSE)

\* the inner loop: the 16-bit register after iterations i..7
crcShift[crc \in 0..65535, i \in 0..8] ==
    IF i = 8 THEN crc
    ELSE crcShift[IF crc >= 32768
                  THEN Xor[(crc * 2) % 65536, 4129]
                  ELSE (crc * 2) % 65536,
                  i + 1]

\* the inner loop run on every value of the register's high byte, the low byte zero
crcTable == [h \in 0..255 |-> crcShift[h * 256, 0]]

\* the register after the eight iterations of the inner loop. No iteration sees a
\* bit of the low byte in 0x8000, so the loop moves the low byte up unchanged and
\* XORs into it what it does to the high byte alone:
\* crcShift[crc, 0] = (low << 8) ^ crcShift[high << 8, 0]
crcShifted[crc \in Nat] == Xor[(crc % 256) * 256, crcTable[crc \div 256]]

\* the register after the first k bytes of data, starting from init
RECURSIVE crcLoop(_, _, _)
crcLoop(data, k, init) ==
    IF k = 0 THEN init
    ELSE crcShifted[Xor[crcLoop(data, k - 1, init), data[k] * 256]]

\* a CRC that starts from zero instead of 0xFFFF
crcCCITTZeroInit(data) == crcLoop(data, Len(data), 0)

crcCCITT(data) == crcLoop(data, Len(data), 65535)

\* a comparison that takes half the window less one
ashSeqLessThanNarrow(a, b) ==
    LET diff == And7((And7(b) - And7(a) + 256) % 256)
    IN  diff > 0 /\ diff <= 3

\* a comparison that subtracts without the wrap to three bits
ashSeqLessThanNoWrap(a, b) ==
    LET diff == And7(b) - And7(a)
    IN  diff > 0 /\ diff <= 4

ashSeqLessThan(a, b) ==
    LET a7 == And7(a)
        b7 == And7(b)
        diff == And7((b7 - a7 + 256) % 256)
    IN  diff > 0 /\ diff <= 4

----------------------------------------------------------------------------
(* Frame construction, ash.go:200-239 and 444-475                          *)

\* raw = append(raw, byte(crc>>8), byte(crc&0xFF)); frame = append(ashStuff(raw), ashFlagByte)
Framed(raw) ==
    LET crc == crcCCITT(raw)
    IN  Append(ashStuff(raw \o <<HiByte(crc), LoByte(crc)>>), ashFlagByte)

buildDataFrame(control, payload) == Framed(<<control>> \o payload)

\* the two writes of sendRST: the cancel byte, then the RST frame
sendRST == <<(<<ashCancelByte>>), Framed(<<ashFrameRST>>)>>

\* the frame sendACK writes when recvSeq is ack: control = 0x80 | (ack & 0x07)
sendACK(ack) == Framed(<<ashFrameACK + And7(ack)>>)

\* the frame sendNAK writes when recvSeq is ack: control = 0xA0 | (ack & 0x07)
sendNAK(ack) == Framed(<<ashFrameNAK + And7(ack)>>)

\* the branch processFrame takes on the unstuffed frame raw
FrameKind(raw) ==
    IF Len(raw) < 3 THEN "short"
    ELSE LET payload == SubSeq(raw, 1, Len(raw) - 2)
             receivedCRC == raw[Len(raw) - 1] * 256 + raw[Len(raw)]
             control == payload[1]
         IN  IF receivedCRC # crcCCITT(payload) THEN "crc"
             ELSE IF control = ashFrameRSTACK THEN "RSTACK"
             ELSE IF control = ashFrameERROR THEN "ERROR"
             ELSE IF control < 128 THEN "DATA"
             ELSE IF (control \div 32) * 32 = ashFrameACK THEN "ACK"
             ELSE IF (control \div 32) * 32 = ashFrameNAK THEN "NAK"
             ELSE "unknown"

----------------------------------------------------------------------------
(* Channels                                                                *)

\* select { case ch <- x: default: } on a buffered channel of capacity cap
TrySend(ch, cap, x) == IF Len(ch) < cap THEN Append(ch, x) ELSE ch

\* a sweep that also drops the entry stored under ack itself
DropAckedInclusive(pend, ack) ==
    [s \in {q \in DOMAIN pend : ~ashSeqLessThan(q, ack) /\ q # ack} |-> pend[s]]

\* the entries of the pending table that ack does not acknowledge
DropAcked(pend, ack) ==
    [s \in {q \in DOMAIN pend : ~ashSeqLessThan(q, ack)} |-> pend[s]]

EmptyMap == [s \in {} |-> <<>>]

\* the goroutines that take locks: the two readers and two client callers
LockTasks == {"ashReader", "ezspReader", "client1", "client2"}

\* no task is inside a code path
NoLocks == [t \in LockTasks |-> [path |-> "", i |-> 0]]

----------------------------------------------------------------------------
(* Bounds and inputs                                                        *)

\* SendData calls that allocate a sequence number, per behaviour
MaxSends == 2
\* frames the ASH reader processes, per behaviour
MaxRx == 2
\* longest byte sequence given to ashStuff
MaxStuffLen == 3
\* longest byte sequence given to crcCCITT
MaxCrcLen == 2

\* SendCommand calls that time out, per behaviour
MaxTimeouts == 1

\* EZSP frames handed to SendData
SendPayloads == {<<1, 0, 0>>, <<2, 0, 17>>}

\* EZSP payloads the NCP puts in DATA frames
PeerPayloads == {<<1, 128, 0>>, <<126>>}

\* control bytes of the DATA frames the NCP sends: frmNum, reTx, ackNum
PeerDataControls ==
    {frm * 16 + reTx * 8 + ack : frm \in 0..7, reTx \in {0}, ack \in {0, 1, 2, 5, 6}}
    \cup {2 * 16 + 8 + 1}

\* unstuffed frames without CRC that the NCP may send
PeerRaw ==
    {<<c>> \o p : c \in PeerDataControls, p \in PeerPayloads}
    \cup {<<ashFrameACK + a>> : a \in 0..7}
    \cup {<<ashFrameNAK + a>> : a \in 0..7}
    \cup {<<ashFrameRSTACK, 2, 2>>, <<ashFrameERROR, 2, 81>>, <<ashFrameRST>>}

\* what the read loop hands to processFrame: well-formed frames, one frame whose
\* CRC does not match and one that is too short
PeerFrames ==
    {ashStuff(r \o <<HiByte(crcCCITT(r)), LoByte(crcCCITT(r))>>) : r \in PeerRaw}
    \cup {<<ashFrameACK + 1, 0, 0>>, <<ashFrameACK + 1, 0>>}

\* what processFrame computes from each of these frames before it dispatches,
\* tabulated once
decodeFrame(f) ==
    LET raw == ashUnstuff(f)
    IN  [kind |-> FrameKind(raw),
         payload |-> IF Len(raw) < 3 THEN <<>> ELSE SubSeq(raw, 1, Len(raw) - 2)]

PeerDecoded == [f \in PeerFrames |-> decodeFrame(f)]

\* the same for any frame
Decoded(f) == IF f \in PeerFrames THEN PeerDecoded[f] ELSE decodeFrame(f)

\* the frame SendData builds for each control byte and payload, tabulated once
DataFrames ==
    [c \in 0..127, p \in SendPayloads |-> buildDataFrame(c, p)]

\* the frames sendACK and sendNAK write for each value of recvSeq, tabulated once
AckFrames == [a \in 0..7 |-> sendACK(a)]
NakFrames == [a \in 0..7 |-> sendNAK(a)]

----------------------------------------------------------------------------
(* Constants of the EZSP layer, ezsp.go:13-58, and of the ZCL codec         *)

ezspVersion == 0
ezspSetConfigurationValue == 83
ezspNetworkInit == 23
ezspFormNetwork == 30
ezspPermitJoining == 34
ezspSendUnicast == 52

ezspTrustCenterJoinHandler == 36
ezspIncomingMessageHandler == 69
ezspMessageSentHandler == 63
ezspStackStatusHandler == 25

ezspConfigStackProfile == 12
ezspConfigSecurityLevel == 13
ezspConfigMaxEndDeviceChildren == 3
ezspConfigMaxHops == 16
ezspConfigSourceRouteTableSize == 26
ezspConfigAddressTableSize == 5

ezspProtocolVersion == 13

emberSuccess == 0
emberNotJoined == 147
emberNetworkUp == 144

\* emberApsOptionRetry | emberApsOptionEnableRouteDiscovery
emberApsOptions == 320

zclClusterOnOff == 6
zclClusterLevelControl == 8
zclCmdOff == 0
zclCmdOn == 1
zclCmdToggle == 2
zclCmdMoveToLevelWithOnOff == 4
zclFrameTypeGlobal == 0
zclGlobalReadAttributes == 0
zclGlobalReadAttributesResponse == 1
zclAttrOnOff == 0
zclAttrCurrentLevel == 0
zclFrameTypeClusterSpecific == 1
zclProfileHA == 260

\* capacity of a response channel, make(chan []byte, 1)
sinkCap == 1

\* capacity of a subscriber channel, make(chan device.DiscoveryEvent, 16)
subscriberCap == 16

----------------------------------------------------------------------------
(* Maps and strings                                                        *)

\* m with m[k] = v
Put(m, k, v) == [x \in DOMAIN m \cup {k} |-> IF x = k THEN v ELSE m[x]]

\* delete(m, k)
Without(m, k) == [x \in DOMAIN m \ {k} |-> m[x]]

\* strings.ToUpper on a string given as its bytes (ASCII)
ToUpper(str) == [i \in 1..Len(str) |-> IF str[i] \in 97..122 THEN str[i] - 32 ELSE str[i]]

\* "ON", "OFF", "TOGGLE" as bytes
strON == <<79, 78>>
strOFF == <<79, 70, 70>>
strTOGGLE == <<84, 79, 71, 71, 76, 69>>

HexDigits == <<"0", "1", "2", "3", "4", "5", "6", "7", "8", "9", "a", "b", "c", "d", "e", "f">>

\* fmt "%02x"
hex2(b) == HexDigits[(b \div 16) + 1] \o HexDigits[(b % 16) + 1]

\* an IEEE address printed with its bytes in the order they were received
formatIEEEForward(addr) ==
    hex2(addr[1]) \o ":" \o hex2(addr[2]) \o ":" \o hex2(addr[3]) \o ":" \o hex2(addr[4]) \o ":"
    \o hex2(addr[5]) \o ":" \o hex2(addr[6]) \o ":" \o hex2(addr[7]) \o ":" \o hex2(addr[8])

formatIEEE(addr) ==
    hex2(addr[8]) \o ":" \o hex2(addr[7]) \o ":" \o hex2(addr[6]) \o ":" \o hex2(addr[5]) \o ":"
    \o hex2(addr[4]) \o ":" \o hex2(addr[3]) \o ":" \o hex2(addr[2]) \o ":" \o hex2(addr[1])

----------------------------------------------------------------------------
(* EZSP framing, ezsp.go:126-142 and 178-247                               *)

\* the frame SendCommand builds: 5-byte header in extended format, 3-byte in legacy
ezspFrame(ext, seq, frameID, params) ==
    IF ext
    THEN <<seq, 1, 0, frameID % 256, (frameID \div 256) % 256>> \o params
    ELSE <<seq, 0, frameID % 256>> \o params

isCallbackFrameID(id) ==
    id \in {ezspTrustCenterJoinHandler, ezspIncomingMessageHandler,
            ezspMessageSentHandler, ezspStackStatusHandler}

\* what processFrame decodes from an EZSP frame in the format in force
ezspDecode(ext, data) ==
    IF ext
    THEN IF Len(data) < 5
         THEN [ok |-> FALSE, frameID |-> 0, params |-> <<>>, isCallback |-> FALSE]
         ELSE [ok |-> TRUE,
               frameID |-> data[4] + 256 * data[5],
               params |-> SubSeq(data, 6, Len(data)),
               isCallback |-> isCallbackFrameID(data[4] + 256 * data[5])]
    ELSE IF Len(data) < 3
         THEN [ok |-> FALSE, frameID |-> 0, params |-> <<>>, isCallback |-> FALSE]
         ELSE [ok |-> TRUE,
               frameID |-> data[3],
               params |-> SubSeq(data, 4, Len(data)),
               isCallback |-> (data[2] \div 4) % 2 = 1]

\* the format in force for the retry, given the version the NCP named; a
\* negotiation that keeps the format until the retry has been answered
SwitchAfterRetry(ext, ncpVersion) == ext

\* ezsp.go:280-283: extended before the retry when the NCP supports 8 or more
SwitchBeforeRetry(ext, ncpVersion) == ext \/ ncpVersion >= 8

\* a negotiation that takes the format from the reported protocol version alone
FormatOfProtocol(ext, protocolVersion) == protocolVersion >= 8

\* ezsp.go:310-313: extended once the reported protocol version is 8 or more
FormatAfterVersion(ext, protocolVersion) == ext \/ protocolVersion >= 8

\* params of setConfigurationValue, ezsp.go:320
SetConfigValueParams(configID, value) == <<configID, value % 256, (value \div 256) % 256>>

\* the table of ConfigureStack, ezsp.go:337-347
stackConfigs ==
    <<(<<ezspConfigStackProfile, 2>>),
      (<<ezspConfigSecurityLevel, 5>>),
      (<<ezspConfigMaxEndDeviceChildren, 32>>),
      (<<ezspConfigAddressTableSize, 16>>),
      (<<ezspConfigSourceRouteTableSize, 16>>),
      (<<ezspConfigMaxHops, 30>>)>>

\* params of formNetwork, ezsp.go:415-423
FormNetworkParams(channel, panID, extPanID) ==
    extPanID \o <<panID % 256, (panID \div 256) % 256, 3, channel, 0, 255, 255, 0, 0, 0, 0, 0>>

\* params of sendUnicast, ezsp.go:478-497
SendUnicastParams(nodeID, profileID, clusterID, srcEndpoint, dstEndpoint, payload) ==
    LET apsFrame == <<profileID % 256, (profileID \div 256) % 256,
                      clusterID % 256, (clusterID \div 256) % 256,
                      srcEndpoint, dstEndpoint,
                      emberApsOptions % 256, (emberApsOptions \div 256) % 256,
                      0, 0, 0>>
    IN  <<0, nodeID % 256, (nodeID \div 256) % 256>> \o apsFrame
        \o <<1, Len(payload) % 256>> \o payload

\* the status test shared by SetConfigValue, FormNetwork, PermitJoining and SendUnicast
StatusOk(resp) == Len(resp) >= 1 /\ resp[1] = emberSuccess

----------------------------------------------------------------------------
(* ZCL codec, the second file of src/unnamed/part_007                      *)

\* EncodeZCLClusterCommand with the sequence number nextZCLSeq returned
EncodeZCLClusterCommand(seqNumber, commandID, payload) ==
    <<zclFrameTypeClusterSpecific, seqNumber, commandID>> \o payload

BuildOnOffCommand(seqNumber, cmd) == EncodeZCLClusterCommand(seqNumber, cmd, <<>>)

\* EncodeZCLGlobalCommand: frame control, the sequence number nextZCLSeq gave, command
EncodeZCLGlobalCommand(seqNumber, commandID, payload) ==
    <<zclFrameTypeGlobal, seqNumber, commandID>> \o payload

\* BuildReadAttributesCommand: the attribute ids, low byte first
BuildReadAttributesCommand(seqNumber, attrIDs) ==
    EncodeZCLGlobalCommand(seqNumber, zclGlobalReadAttributes,
                           [i \in 1..2 * Len(attrIDs) |->
                               IF i % 2 = 1 THEN attrIDs[(i + 1) \div 2] % 256
                               ELSE (attrIDs[i \div 2] \div 256) % 256])

\* zclDataTypeLength: the length of a value of the type, -1 for a type not known
zclDataTypeLength(dataType, data) ==
    CASE dataType \in {16, 32, 40, 48} -> 1
      [] dataType \in {33, 41, 49} -> 2
      [] dataType = 34 -> 3
      [] dataType = 35 -> 4
      [] dataType = 66 -> IF Len(data) < 1 THEN -1 ELSE 1 + data[1]
      [] OTHER -> -1

\* a loop that ends at the first record with a non-zero status
RECURSIVE parseAttributesStopOnFailure(_, _, _)
parseAttributesStopOnFailure(data, offset, result) ==
    IF offset + 4 > Len(data) \/ data[offset + 3] # 0
    THEN result
    ELSE LET attrID == data[offset + 1] + 256 * data[offset + 2]
             at == offset + 4
             valueLen == zclDataTypeLength(data[at], SubSeq(data, at + 1, Len(data)))
         IN  IF valueLen <= 0 \/ at + valueLen > Len(data)
             THEN result
             ELSE parseAttributesStopOnFailure(data, at + valueLen,
                      [a \in DOMAIN result \cup {attrID} |->
                          IF a = attrID THEN SubSeq(data, at + 1, at + valueLen)
                          ELSE result[a]])

\* the loop of ParseReadAttributesResponse from offset on, result being the map so far
RECURSIVE parseAttributesFrom(_, _, _)
parseAttributesFrom(data, offset, result) ==
    IF offset + 4 > Len(data)
    THEN result
    ELSE LET attrID == data[offset + 1] + 256 * data[offset + 2]
             status == data[offset + 3]
             afterStatus == offset + 3
         IN  IF status # 0
             THEN parseAttributesFrom(data, afterStatus, result)
             ELSE IF afterStatus >= Len(data)
             THEN result
             ELSE LET dataType == data[afterStatus + 1]
                      at == afterStatus + 1
                      valueLen == zclDataTypeLength(dataType, SubSeq(data, at + 1, Len(data)))
                  IN  IF valueLen <= 0 \/ at + valueLen > Len(data)
                      THEN result
                      ELSE parseAttributesFrom(data, at + valueLen,
                               [a \in DOMAIN result \cup {attrID} |->
                                   IF a = attrID THEN SubSeq(data, at + 1, at + valueLen)
                                   ELSE result[a]])

ParseReadAttributesResponse(data) == parseAttributesFrom(data, 0, <<>>)

\* the records the loop of ParseReadAttributesResponse goes through from offset on:
\* where each begins (at) and ends (end), the highest index it reads (hi), and
\* whether it is skipped, stored or ends the loop
RECURSIVE parseRecords(_, _)
parseRecords(data, offset) ==
    IF offset + 4 > Len(data)
    THEN <<>>
    ELSE LET attrID == data[offset + 1] + 256 * data[offset + 2]
             status == data[offset + 3]
             dataType == data[offset + 4]
             valueLen == zclDataTypeLength(dataType, SubSeq(data, offset + 5, Len(data)))
             rec(kind, end, hi) == [at |-> offset, id |-> attrID, kind |-> kind,
                                    end |-> end, hi |-> hi]
         IN  IF status # 0
             THEN <<rec("skip", offset + 3, offset + 3)>> \o parseRecords(data, offset + 3)
             ELSE IF valueLen <= 0 \/ offset + 4 + valueLen > Len(data)
             THEN <<rec("stop", offset + 4,
                        IF dataType = 66 /\ offset + 5 <= Len(data)
                        THEN offset + 5 ELSE offset + 4)>>
             ELSE <<rec("entry", offset + 4 + valueLen, offset + 4 + valueLen)>>
                      \o parseRecords(data, offset + 4 + valueLen)

\* a builder that sends Move to Level (0x00) instead of Move to Level with On/Off
BuildMoveToLevelPlain(seqNumber, level, transitionTime) ==
    EncodeZCLClusterCommand(seqNumber, 0,
                            <<level, transitionTime % 256, (transitionTime \div 256) % 256>>)

BuildMoveToLevelCommand(seqNumber, level, transitionTime) ==
    EncodeZCLClusterCommand(seqNumber, zclCmdMoveToLevelWithOnOff,
                            <<level, transitionTime % 256, (transitionTime \div 256) % 256>>)


----------------------------------------------------------------------------
(* Initial state: NewASHLayer, ash.go:70-80                                 *)

NoOp == [op |-> "none", in |-> <<>>, kind |-> "", ok |-> TRUE]
NoArg == [fn |-> "none"]
NoRes == [done |-> FALSE]

NewASHLayer ==
    /\ state = ashStateDisconnected
    /\ sendSeq = 0
    /\ ackNum = 0
    /\ recvSeq = 0
    /\ pending = EmptyMap
    /\ recvChan = <<>>
    /\ connChan = 0
    /\ stopped = FALSE
    /\ reader = "none"
    /\ caller = "idle"
    /\ tx = <<>>
    /\ last = NoOp
    /\ nAccepted = 0
    /\ lastTaken = 0
    /\ nSent = 0
    /\ nRx = 0

(* Initial state above the ASH layer: NewEZSPLayer, ezsp.go:81-88, and the *)
(* Controller literal of NewController, controller.go:56-62                *)

NoEv == [op |-> "none"]
NoCmd == [frameID |-> 0, ch |-> 0, seq |-> 0, ext |-> FALSE, sent |-> FALSE, solo |-> TRUE]
NoLoc == [kd |-> 0]
IdleThread == [op |-> "idle", pc |-> "", cmd |-> NoCmd, loc |-> NoLoc]

\* the goroutines that call into the controller
Threads == {1, 2}

NewEZSPLayer ==
    /\ ezspSeq = 0
    /\ extendedFormat = FALSE
    /\ responseChan = EmptyMap
    /\ sinks = EmptyMap
    /\ ezspStopped = FALSE
    /\ ezspReaderExited = FALSE
    /\ nCh = 0

NewControllerFields ==
    /\ serialOpen = TRUE
    /\ connected = FALSE
    /\ devices = EmptyMap
    /\ objs = EmptyMap
    /\ zclSeqCounter = 0
    /\ th = [t \in Threads |-> IdleThread]
    /\ hlast = NoEv
    /\ initOk = FALSE
    /\ nObj = 0
    /\ nOps = 0
    /\ nCb = 0
    /\ ncp = {}
    /\ nTo = 0
    /\ subscribers = <<>>
    /\ subChans = EmptyMap
    /\ clock = 0
    /\ cache = EmptyMap
    /\ lk = NoLocks
    /\ wire = <<>>
    /\ buf = <<>>

\* a step of the ASH layer alone, on whole frames
HostIdle == hlast' = NoEv /\ UNCHANGED hostState

\* a byte read by readLoop: nothing above the ASH layer moves
LinkIdle ==
    /\ hlast' = NoEv
    /\ UNCHANGED <<serialOpen, ezspSeq, extendedFormat, responseChan, sinks, ezspStopped, th,
                   connected, devices, objs, zclSeqCounter, initOk, nCh, nObj, nOps, nCb,
                   ncp, nTo, ezspReaderExited, subscribers, subChans, clock, cache, lk, wire>>

\* a step that touches neither the EZSP reader's exit, the subscribers, the clock
\* nor the schema cache
CtlIdle == UNCHANGED <<ezspReaderExited, subscribers, subChans, clock, cache, lk, wire, buf>>

\* a step that does not enter the ASH layer
AshIdle ==
    /\ tx' = <<>>
    /\ last' = NoOp
    /\ UNCHANGED <<state, sendSeq, ackNum, recvSeq, pending, recvChan, connChan, stopped,
                   reader, caller, nAccepted, lastTaken, nSent, nRx, arg, res>>


Init ==
    /\ NewASHLayer
    /\ NewEZSPLayer
    /\ NewControllerFields
    /\ arg = NoArg
    /\ res = NoRes

----------------------------------------------------------------------------
(* Client operations of the ASH layer                                      *)

IsConnected == state = ashStateConnected

\* Connect up to its select: state, RST, start of the reader. NewController is
\* its only caller and calls it once.
Connect ==
    /\ caller = "idle"
    /\ reader = "none"
    /\ state' = ashStateResetPending
    /\ tx' = sendRST
    /\ reader' = "running"
    /\ caller' = "connect"
    /\ last' = [op |-> "Connect", in |-> <<>>, kind |-> "", ok |-> TRUE]
    /\ UNCHANGED <<sendSeq, ackNum, recvSeq, pending, recvChan, connChan, stopped,
                   nAccepted, lastTaken, nSent, nRx, arg, res>>

\* a Reset that does not drain connChan
ResetKeepsSignal ==
    /\ caller = "idle"
    /\ reader # "none"
    /\ state' = ashStateResetPending
    /\ tx' = sendRST
    /\ caller' = "reset"
    /\ last' = [op |-> "Reset", in |-> <<>>, kind |-> "", ok |-> TRUE]
    /\ UNCHANGED <<sendSeq, ackNum, recvSeq, pending, recvChan, connChan, stopped, reader,
                   nAccepted, lastTaken, nSent, nRx, arg, res>>

\* Reset up to its second select: state, drain of connChan, RST
Reset ==
    /\ caller = "idle"
    /\ reader # "none"
    /\ state' = ashStateResetPending
    /\ connChan' = 0
    /\ tx' = sendRST
    /\ caller' = "reset"
    /\ last' = [op |-> "Reset", in |-> <<>>, kind |-> "", ok |-> TRUE]
    /\ UNCHANGED <<sendSeq, ackNum, recvSeq, pending, recvChan, stopped, reader,
                   nAccepted, lastTaken, nSent, nRx, arg, res>>

\* the three branches of the select that ends Connect and Reset
WaitReturn ==
    /\ caller \in {"connect", "reset"}
    /\ \/ /\ connChan > 0
          /\ connChan' = connChan - 1
          /\ last' = [op |-> "return", in |-> <<>>, kind |-> "established", ok |-> TRUE]
       \/ /\ UNCHANGED connChan
          /\ last' = [op |-> "return", in |-> <<>>, kind |-> "timeout", ok |-> FALSE]
       \/ /\ stopped
          /\ UNCHANGED connChan
          /\ last' = [op |-> "return", in |-> <<>>, kind |-> "stopped", ok |-> FALSE]
    /\ caller' = "idle"
    /\ tx' = <<>>
    /\ UNCHANGED <<state, sendSeq, ackNum, recvSeq, pending, recvChan, stopped, reader,
                   nAccepted, lastTaken, nSent, nRx, arg, res>>

\* a SendData that does not look at the state
SendDataUnchecked(payload) ==
    LET seq == sendSeq
        ack == recvSeq
        control == seq * 16 + And7(ack)
        frame == IF payload \in SendPayloads
                 THEN DataFrames[control, payload]
                 ELSE buildDataFrame(control, payload)
    IN  /\ sendSeq' = And7(sendSeq + 1)
        /\ pending' = [s \in DOMAIN pending \cup {seq} |->
                         IF s = seq THEN frame ELSE pending[s]]
        /\ nSent' = nSent + 1
        /\ IF serialOpen
           THEN /\ tx' = <<frame>>
                /\ last' = [op |-> "SendData", in |-> payload, kind |-> "sent", ok |-> TRUE]
           ELSE /\ tx' = <<>>
                /\ last' = [op |-> "SendData", in |-> payload, kind |-> "write error",
                            ok |-> FALSE]
        /\ UNCHANGED <<state, ackNum, recvSeq, recvChan, connChan, stopped, reader,
                       caller, nAccepted, lastTaken, nRx, arg, res>>

SendData(payload) ==
    IF state # ashStateConnected
    THEN /\ tx' = <<>>
         /\ last' = [op |-> "SendData", in |-> payload, kind |-> "not connected", ok |-> FALSE]
         /\ UNCHANGED <<state, sendSeq, ackNum, recvSeq, pending, recvChan, connChan,
                        stopped, reader, caller, nAccepted, lastTaken, nSent, nRx, arg, res>>
    ELSE LET seq == sendSeq
             ack == recvSeq
             control == seq * 16 + And7(ack)
             frame == IF payload \in SendPayloads
                      THEN DataFrames[control, payload]
                      ELSE buildDataFrame(control, payload)
         IN  /\ sendSeq' = And7(sendSeq + 1)
             /\ pending' = [s \in DOMAIN pending \cup {seq} |->
                              IF s = seq THEN frame ELSE pending[s]]
             /\ nSent' = nSent + 1
             /\ IF serialOpen
                THEN /\ tx' = <<frame>>
                     /\ last' = [op |-> "SendData", in |-> payload, kind |-> "sent", ok |-> TRUE]
                ELSE /\ tx' = <<>>
                     /\ last' = [op |-> "SendData", in |-> payload, kind |-> "write error",
                                 ok |-> FALSE]
             /\ UNCHANGED <<state, ackNum, recvSeq, recvChan, connChan, stopped, reader,
                            caller, nAccepted, lastTaken, nRx, arg, res>>

Close ==
    /\ stopped' = TRUE
    /\ tx' = <<>>
    /\ last' = [op |-> "Close", in |-> <<>>, kind |-> "", ok |-> TRUE]
    /\ UNCHANGED <<state, sendSeq, ackNum, recvSeq, pending, recvChan, connChan, reader,
                   caller, nAccepted, lastTaken, nSent, nRx, arg, res>>

----------------------------------------------------------------------------
(* The ASH reader: processFrame and its handlers, ash.go:293-442           *)

\* a frame that is logged and dropped: too short, bad CRC, ERROR, unknown type
Discard ==
    /\ tx' = <<>>
    /\ UNCHANGED <<state, sendSeq, ackNum, recvSeq, pending, recvChan, connChan, nAccepted>>

handleRSTACK(payload) ==
    /\ sendSeq' = 0
    /\ ackNum' = 0
    /\ recvSeq' = 0
    /\ pending' = EmptyMap
    /\ state' = ashStateConnected
    /\ connChan' = IF connChan < connChanCap THEN connChan + 1 ELSE connChan
    /\ tx' = <<>>
    /\ UNCHANGED <<recvChan, nAccepted>>

handleData(payload) ==
    LET control == payload[1]
        frmNum == And7(control \div 16)
        npcAck == And7(control)
        expected == recvSeq
    IN  /\ pending' = DropAcked(pending, npcAck)
        /\ IF frmNum = expected
           THEN /\ recvSeq' = And7(expected + 1)
                /\ tx' = <<AckFrames[And7(expected + 1)]>>
                /\ recvChan' = TrySend(recvChan, recvChanCap,
                                       [data |-> Tail(payload), tag |-> nAccepted + 1])
                /\ nAccepted' = nAccepted + 1
           ELSE /\ tx' = <<NakFrames[recvSeq]>>
                /\ UNCHANGED <<recvSeq, recvChan, nAccepted>>
        /\ UNCHANGED <<state, sendSeq, ackNum, connChan>>

handleACK(control) ==
    /\ pending' = DropAcked(pending, And7(control))
    /\ tx' = <<>>
    /\ UNCHANGED <<state, sendSeq, ackNum, recvSeq, recvChan, connChan, nAccepted>>

\* a retransmission that takes the frame out of the pending table
handleNAKForgets(control) ==
    LET nakNum == And7(control)
    IN  /\ tx' = IF nakNum \in DOMAIN pending THEN <<pending[nakNum]>> ELSE <<>>
        /\ pending' = [s \in DOMAIN pending \ {nakNum} |-> pending[s]]
        /\ UNCHANGED <<state, sendSeq, ackNum, recvSeq, recvChan, connChan, nAccepted>>

handleNAK(control) ==
    LET nakNum == And7(control)
    IN  /\ tx' = IF nakNum \in DOMAIN pending THEN <<pending[nakNum]>> ELSE <<>>
        /\ UNCHANGED <<state, sendSeq, ackNum, recvSeq, pending, recvChan, connChan,
                       nAccepted>>

\* one frame closed by a flag byte in readLoop and given to processFrame. A reader
\* blocked in ReadByte when Close is called still finishes the frame in hand and
\* leaves at the next check of stopChan.
processFrame(stuffed) ==
    LET decoded == Decoded(stuffed)
        kind == decoded.kind
        payload == decoded.payload
    IN  /\ reader = "running"
        /\ nRx' = nRx + 1
        /\ reader' = IF stopped THEN "exited" ELSE "running"
        /\ last' = [op |-> "processFrame", in |-> stuffed, kind |-> kind, ok |-> TRUE]
        /\ CASE kind = "RSTACK" -> handleRSTACK(payload)
             [] kind = "DATA" -> handleData(payload)
             [] kind = "ACK" -> handleACK(payload[1])
             [] kind = "NAK" -> handleNAK(payload[1])
             [] OTHER -> Discard
        /\ UNCHANGED <<stopped, caller, lastTaken, nSent, arg, res>>

\* readLoop returns: stopChan is closed, or ReadByte failed after Close
\* an iteration of readLoop that hands no frame to processFrame, ash.go:263-289
loopContinue(b, kind) ==
    /\ last' = [op |-> "readLoop", in |-> <<b>>, kind |-> kind, ok |-> TRUE, n |-> Len(buf)]
    /\ tx' = <<>>
    /\ UNCHANGED <<state, sendSeq, ackNum, recvSeq, pending, recvChan, connChan, stopped,
                   reader, caller, nAccepted, lastTaken, nSent, nRx, arg, res>>

\* a readLoop in which XON and XOFF are accumulated like any other byte
readLoopKeepsFlowControl(b) ==
    /\ reader = "running"
    /\ IF b = ashCancelByte
       THEN buf' = <<>> /\ loopContinue(b, "cancel")
       ELSE IF b = ashSubstitute
       THEN buf' = <<>> /\ loopContinue(b, "substitute")
       ELSE IF b = ashFlagByte
       THEN IF Len(buf) > 0
            THEN processFrame(buf) /\ buf' = <<>>
            ELSE UNCHANGED buf /\ loopContinue(b, "flag")
       ELSE IF Len(buf) + 1 > ashMaxFrameLen
       THEN buf' = <<>> /\ loopContinue(b, "overflow")
       ELSE buf' = Append(buf, b)
            /\ loopContinue(b, IF b = ashXON \/ b = ashXOFF THEN "flow" ELSE "append")

\* readLoop, ash.go:241-291: one iteration on the byte b that ReadByte returned
readLoop(b) ==
    /\ reader = "running"
    /\ IF b = ashCancelByte
       THEN buf' = <<>> /\ loopContinue(b, "cancel")
       ELSE IF b = ashSubstitute
       THEN buf' = <<>> /\ loopContinue(b, "substitute")
       ELSE IF b = ashXON \/ b = ashXOFF
       THEN UNCHANGED buf /\ loopContinue(b, "flow")
       ELSE IF b = ashFlagByte
       THEN IF Len(buf) > 0
            THEN processFrame(buf) /\ buf' = <<>>
            ELSE UNCHANGED buf /\ loopContinue(b, "flag")
       ELSE IF Len(buf) + 1 > ashMaxFrameLen
       THEN buf' = <<>> /\ loopContinue(b, "overflow")
       ELSE buf' = Append(buf, b) /\ loopContinue(b, "append")

ReaderExit ==
    /\ reader = "running"
    /\ stopped
    /\ reader' = "exited"
    /\ tx' = <<>>
    /\ last' = [op |-> "readerExit", in |-> <<>>, kind |-> "", ok |-> TRUE]
    /\ UNCHANGED <<state, sendSeq, ackNum, recvSeq, pending, recvChan, connChan, stopped,
                   caller, nAccepted, lastTaken, nSent, nRx, arg, res>>

----------------------------------------------------------------------------
(* The device table and the callback handler, controller.go:142-209        *)

\* the KnownDevice structs still referenced by the table d or by a caller in t
Collect(o, d, t) ==
    [k \in {k \in DOMAIN o : (\E id \in DOMAIN d : d[id] = k)
                            \/ (\E x \in DOMAIN t : t[x].loc.kd = k)} |-> o[k]]

\* what a callback leaves behind: table, structs, allocation count, published events
Unchanged == [devices |-> devices, objs |-> objs, nObj |-> nObj, events |-> <<>>]

handleTrustCenterJoin(data) ==
    IF Len(data) < 11
    THEN Unchanged
    ELSE LET nodeID == data[1] + 256 * data[2]
             ieee == SubSeq(data, 3, 10)
             status == data[11]
             ieeeStr == formatIEEE(ieee)
         IN  IF status = 3
             THEN [devices |-> Without(devices, ieeeStr),
                   objs |-> objs,
                   nObj |-> nObj,
                   events |-> <<[type |-> "device_left", id |-> ieeeStr]>>]
             ELSE LET kd == nObj + 1
                  IN  [devices |-> Put(devices, ieeeStr, kd),
                       objs |-> Put(objs, kd, [IEEEAddress |-> ieee,
                                               NodeID |-> nodeID,
                                               DeviceType |-> "light",
                                               Endpoint |-> 1,
                                               State |-> EmptyMap]),
                       nObj |-> kd,
                       events |-> <<[type |-> "device_joined", id |-> ieeeStr]>>]

\* the values of a map[string]any: a key that is absent, a string, and a value of
\* another dynamic type
Absent == [t |-> "absent", s |-> <<>>, n |-> 0]
Str(bytes) == [t |-> "string", s |-> bytes, n |-> 0]
Num(type, n) == [t |-> type, s |-> <<>>, n |-> n]

\* boolToOnOff, controller.go:560-565
boolToOnOff(b) == IF b THEN strON ELSE strOFF

\* an update that takes the attributes of any global command
updateDeviceStateAnyCommand(kd, clusterID, message) ==
    IF Len(message) < 3
    THEN kd
    ELSE LET attrs == ParseReadAttributesResponse(SubSeq(message, 4, Len(message)))
         IN  IF message[1] % 2 # 0
             THEN kd
             ELSE CASE clusterID = zclClusterOnOff ->
                          IF zclAttrOnOff \in DOMAIN attrs /\ Len(attrs[zclAttrOnOff]) > 0
                          THEN [kd EXCEPT !.State =
                                   Put(@, "state", Str(IF attrs[zclAttrOnOff][1] # 0
                                                       THEN strON ELSE strOFF))]
                          ELSE kd
                     [] clusterID = zclClusterLevelControl ->
                          IF zclAttrCurrentLevel \in DOMAIN attrs
                             /\ Len(attrs[zclAttrCurrentLevel]) > 0
                          THEN [kd EXCEPT !.State =
                                   Put(@, "brightness", Num("int", attrs[zclAttrCurrentLevel][1]))]
                          ELSE kd
                     [] OTHER -> kd

\* updateDeviceStateFromZCL: the struct kd after the message
updateDeviceStateFromZCL(kd, clusterID, message) ==
    IF Len(message) < 3
    THEN kd
    ELSE LET frameControl == message[1]
             cmdID == message[3]
             payload == SubSeq(message, 4, Len(message))
             isGlobal == frameControl % 2 = 0
         IN  IF isGlobal /\ cmdID = zclGlobalReadAttributesResponse
             THEN LET attrs == ParseReadAttributesResponse(payload)
                  IN  CASE clusterID = zclClusterOnOff ->
                              IF zclAttrOnOff \in DOMAIN attrs /\ Len(attrs[zclAttrOnOff]) > 0
                              THEN [kd EXCEPT !.State =
                                       Put(@, "state", Str(boolToOnOff(attrs[zclAttrOnOff][1] # 0)))]
                              ELSE kd
                         [] clusterID = zclClusterLevelControl ->
                              IF zclAttrCurrentLevel \in DOMAIN attrs
                                 /\ Len(attrs[zclAttrCurrentLevel]) > 0
                              THEN [kd EXCEPT !.State =
                                       Put(@, "brightness", Num("int", attrs[zclAttrCurrentLevel][1]))]
                              ELSE kd
                         [] OTHER -> kd
             ELSE kd

\* handleIncomingMessage: what the callback can leave behind; the loop over the map
\* stops at the first device with the sender's node id, in the order the map gives
handleIncomingMessage(data) ==
    IF Len(data) < 19
    THEN {Unchanged}
    ELSE LET clusterID == data[4] + 256 * data[5]
             sender == data[15] + 256 * data[16]
             msgLen == data[19]
         IN  IF Len(data) < 19 + msgLen
             THEN {Unchanged}
             ELSE LET message == SubSeq(data, 20, 19 + msgLen)
                      found == {id \in DOMAIN devices : objs[devices[id]].NodeID = sender}
                  IN  IF found = {}
                      THEN {Unchanged}
                      ELSE {[Unchanged EXCEPT !.objs =
                                [objs EXCEPT ![devices[id]] =
                                    updateDeviceStateFromZCL(@, clusterID, message)]] :
                               id \in found}

\* controller.go:280-293: logs only
handleStackStatus(data) == Unchanged

\* handleCallback: what the callback can leave behind
handleCallback(frameID, data) ==
    CASE frameID = ezspTrustCenterJoinHandler -> {handleTrustCenterJoin(data)}
      [] frameID = ezspIncomingMessageHandler -> handleIncomingMessage(data)
      [] frameID = ezspStackStatusHandler -> {handleStackStatus(data)}
      [] OTHER -> {Unchanged}

\* a publishEvent that makes room in a full channel by dropping its oldest event
publishEventEvict(chans, subs, evt) ==
    [c \in DOMAIN chans |->
        IF \E i \in DOMAIN subs : subs[i] = c
        THEN IF chans[c].closed
             THEN [chans[c] EXCEPT !.panic = TRUE]
             ELSE [chans[c] EXCEPT !.buf = IF Len(@) < subscriberCap
                                            THEN Append(@, evt)
                                            ELSE Append(Tail(@), evt)]
        ELSE chans[c]]

\* publishEvent: every registered channel with room takes the event, a full one
\* does not; a send on a closed channel panics
publishEvent(chans, subs, evt) ==
    [c \in DOMAIN chans |->
        IF \E i \in DOMAIN subs : subs[i] = c
        THEN IF chans[c].closed
             THEN [chans[c] EXCEPT !.panic = TRUE]
             ELSE [chans[c] EXCEPT !.buf = TrySend(@, subscriberCap, evt)]
        ELSE chans[c]]

\* the events of a handler published one after the other, each with the time read
\* for it
RECURSIVE publishAll(_, _, _, _)
publishAll(chans, subs, evts, now) ==
    IF evts = <<>>
    THEN chans
    ELSE publishAll(publishEvent(chans, subs,
                                 [type |-> Head(evts).type, id |-> Head(evts).id,
                                  ts |-> now + 1]),
                    subs, Tail(evts), now + 1)

----------------------------------------------------------------------------
(* The EZSP reader: readLoop and processFrame, ezsp.go:165-233. The        *)
(* callback handler is the controller's, set before the reader starts.     *)

\* a reader that hands a response to the sink of any registered frame id
ezspProcessFrameAnySink(data) ==
    LET d == ezspDecode(extendedFormat, data)
        ev == [op |-> "ezspProcessFrame", data |-> data, ext |-> extendedFormat,
               frameID |-> d.frameID, params |-> d.params]
    IN  /\ IF ~d.ok
           THEN /\ hlast' = [route |-> "short", events |-> <<>>] @@ ev
                /\ UNCHANGED <<sinks, devices, objs, nObj, nCb, subChans, clock>>
           ELSE IF d.isCallback
           THEN \E r \in handleCallback(d.frameID, d.params) :
                    /\ devices' = r.devices
                    /\ objs' = Collect(r.objs, r.devices, th)
                    /\ nObj' = r.nObj
                    /\ nCb' = nCb + 1
                    /\ subChans' = publishAll(subChans, subscribers, r.events, clock)
                    /\ clock' = clock + Len(r.events)
                    /\ hlast' = [route |-> "handler", events |-> r.events] @@ ev
                    /\ UNCHANGED sinks
           ELSE IF responseChan # EmptyMap
           THEN \E f \in DOMAIN responseChan :
                LET ch == responseChan[f]
                IN  /\ sinks' = [sinks EXCEPT ![ch] = TrySend(@, sinkCap, [params |-> d.params, of |-> data[1],
                                                   fid |-> d.frameID])]
                    /\ hlast' = [route |-> "sink", ch |-> ch, events |-> <<>>] @@ ev
                    /\ UNCHANGED <<devices, objs, nObj, nCb, subChans, clock>>
           ELSE /\ hlast' = [route |-> "none", events |-> <<>>] @@ ev
                /\ UNCHANGED <<sinks, devices, objs, nObj, nCb, subChans, clock>>
        /\ UNCHANGED <<serialOpen, ezspSeq, extendedFormat, responseChan, ezspStopped, th,
                       connected, zclSeqCounter, initOk, nCh, nOps, ncp, nTo,
                       ezspReaderExited, subscribers, cache, lk, wire, buf>>

ezspProcessFrame(data) ==
    LET d == ezspDecode(extendedFormat, data)
        ev == [op |-> "ezspProcessFrame", data |-> data, ext |-> extendedFormat,
               frameID |-> d.frameID, params |-> d.params]
    IN  /\ IF ~d.ok
           THEN /\ hlast' = [route |-> "short", events |-> <<>>] @@ ev
                /\ UNCHANGED <<sinks, devices, objs, nObj, nCb, subChans, clock>>
           ELSE IF d.isCallback
           THEN \E r \in handleCallback(d.frameID, d.params) :
                    /\ devices' = r.devices
                    /\ objs' = Collect(r.objs, r.devices, th)
                    /\ nObj' = r.nObj
                    /\ nCb' = nCb + 1
                    /\ subChans' = publishAll(subChans, subscribers, r.events, clock)
                    /\ clock' = clock + Len(r.events)
                    /\ hlast' = [route |-> "handler", events |-> r.events] @@ ev
                    /\ UNCHANGED sinks
           ELSE IF d.frameID \in DOMAIN responseChan
           THEN LET ch == responseChan[d.frameID]
                IN  /\ sinks' = [sinks EXCEPT ![ch] = TrySend(@, sinkCap, [params |-> d.params, of |-> data[1],
                                                   fid |-> d.frameID])]
                    /\ hlast' = [route |-> "sink", ch |-> ch, events |-> <<>>] @@ ev
                    /\ UNCHANGED <<devices, objs, nObj, nCb, subChans, clock>>
           ELSE /\ hlast' = [route |-> "none", events |-> <<>>] @@ ev
                /\ UNCHANGED <<sinks, devices, objs, nObj, nCb, subChans, clock>>
        /\ UNCHANGED <<serialOpen, ezspSeq, extendedFormat, responseChan, ezspStopped, th,
                       connected, zclSeqCounter, initOk, nCh, nOps, ncp, nTo,
                       ezspReaderExited, subscribers, cache, lk, wire, buf>>

\* a reader that looks at the head of the queue and leaves it there
ezspReadLoopPeek ==
    /\ ~ezspReaderExited
    /\ recvChan # <<>>
    /\ lastTaken' = Head(recvChan).tag
    /\ tx' = <<>>
    /\ last' = [op |-> "ezspRead", in |-> Head(recvChan).data, kind |-> "", ok |-> TRUE]
    /\ ezspProcessFrame(Head(recvChan).data)
    /\ UNCHANGED <<state, sendSeq, ackNum, recvSeq, pending, recvChan, connChan, stopped,
                   reader, caller, nAccepted, nSent, nRx, arg, res>>

ezspReadLoop ==
    /\ ~ezspReaderExited
    /\ recvChan # <<>>
    /\ recvChan' = Tail(recvChan)
    /\ lastTaken' = Head(recvChan).tag
    /\ tx' = <<>>
    /\ last' = [op |-> "ezspRead", in |-> Head(recvChan).data, kind |-> "", ok |-> TRUE]
    /\ ezspProcessFrame(Head(recvChan).data)
    /\ UNCHANGED <<state, sendSeq, ackNum, recvSeq, pending, connChan, stopped,
                   reader, caller, nAccepted, nSent, nRx, arg, res>>


----------------------------------------------------------------------------
(* SendCommand, ezsp.go:107-163. A caller runs from one suspension point   *)
(* to the next in one step: SendCommand up to its select, then from the    *)
(* branch the select takes to the select of the next command or to the     *)
(* return of the operation.                                                *)

\* caller t is inside SendCommand
InCommand(t) == th[t].op # "idle" /\ th[t].pc \notin {"connect", "start", "sleep"}

\* SendCommand up to its select, for caller t, starting from sequence number seqNow,
\* format ext, sink map rc and channels sk; nt is the caller's new position
SendCommand(t, seqNow, ext, rc, sk, frameID, params, nt) ==
    LET ch == nCh + 1
        frame == ezspFrame(ext, seqNow, frameID, params)
    IN  /\ ezspSeq' = (seqNow + 1) % 256
        /\ nCh' = ch
        /\ responseChan' = Put(rc, frameID, ch)
        /\ sinks' = Put(sk, ch, <<>>)
        /\ SendData(frame)
        /\ ncp' = IF last'.ok
                  THEN ncp \cup {[seq |-> seqNow, frameID |-> frameID, ext |-> ext,
                                  params |-> params]}
                  ELSE ncp
        /\ th' = [th EXCEPT ![t] =
                    [nt EXCEPT !.cmd = [frameID |-> frameID, ch |-> ch, seq |-> seqNow,
                                        ext |-> ext, sent |-> last'.ok,
                                        solo |-> \A u \in Threads \ {t} : ~InCommand(u)]]]

\* the ways SendCommand can return to caller t: the error of SendData, or a branch
\* of the select
Outcomes(t) ==
    LET c == th[t].cmd
    IN  IF ~c.sent
        THEN {[k |-> "senderr", resp |-> <<>>, of |-> -1]}
        ELSE {[k |-> "response", resp |-> r.params, of |-> r.of] :
                 r \in {sinks[c.ch][i] : i \in DOMAIN sinks[c.ch] \cap {1}}}
             \cup {[k |-> "timeout", resp |-> <<>>, of |-> -1] :
                      x \in {n \in {nTo} : n < MaxTimeouts}}
             \cup {[k |-> "stopped", resp |-> <<>>, of |-> -1] :
                      x \in {e \in {ezspStopped} : e}}

\* the count of the timeouts taken
Took(o) == nTo' = IF o.k = "timeout" THEN nTo + 1 ELSE nTo

\* a return that leaves the entry of the sink map in place
KeepRegistered(t) == responseChan

\* the deferred delete(e.responseChan, frameID) of caller t's SendCommand
Deregistered(t) == Without(responseChan, th[t].cmd.frameID)

\* the channels left when caller t's SendCommand has returned
Released(t) == Without(sinks, th[t].cmd.ch)

\* what a step of caller t reports
Ev(t, o, issued, done, err, val) ==
    [op |-> th[t].op, t |-> t, pc |-> th[t].pc, loc |-> th[t].loc, cmd |-> th[t].cmd,
     got |-> o.k, resp |-> o.resp, of |-> o.of, issued |-> issued, done |-> done, err |-> err, val |-> val]

\* the outcome of a step that starts an operation
Called == [k |-> "call", resp |-> <<>>, of |-> -1]

\* the end of a step of caller t that returns from SendCommand and from the operation
ReturnFromCommand(t, o, err, val) ==
    /\ th' = [th EXCEPT ![t] = IdleThread]
    /\ responseChan' = Deregistered(t)
    /\ sinks' = Released(t)
    /\ hlast' = Ev(t, o, FALSE, TRUE, err, val)
    /\ Took(o)
    /\ UNCHANGED <<ezspSeq, nCh, ncp>>

----------------------------------------------------------------------------
(* PermitJoining, ezsp.go:445-460                                          *)

PermitJoining(t, duration) ==
    /\ th[t].op = "idle"
    /\ SendCommand(t, ezspSeq, extendedFormat, responseChan, sinks, ezspPermitJoining,
                   <<duration>>, [IdleThread EXCEPT !.op = "PermitJoining", !.pc = "wait"])
    /\ hlast' = [Ev(t, Called, TRUE, FALSE, "", <<>>) EXCEPT !.op = "PermitJoining"]
    /\ UNCHANGED nTo
    /\ nOps' = nOps + 1
    /\ UNCHANGED <<serialOpen, extendedFormat, ezspStopped, connected, devices, objs,
                   zclSeqCounter, initOk, nObj, nCb>>

PermitJoiningReturn(t) ==
    /\ th[t].op = "PermitJoining"
    /\ \E o \in Outcomes(t) :
          ReturnFromCommand(t, o,
                            IF o.k # "response" THEN o.k
                            ELSE IF StatusOk(o.resp) THEN "" ELSE "status",
                            <<>>)
    /\ AshIdle
    /\ UNCHANGED <<serialOpen, extendedFormat, ezspStopped, connected, devices, objs,
                   zclSeqCounter, initOk, nObj, nOps, nCb>>

\* EZSPLayer.Close, ezsp.go:102-105, called once
ezspClose ==
    /\ ~ezspStopped
    /\ ezspStopped' = TRUE
    /\ hlast' = [op |-> "ezspClose"]
    /\ AshIdle
    /\ UNCHANGED <<ncp, nTo>>
    /\ UNCHANGED <<serialOpen, ezspSeq, extendedFormat, responseChan, sinks, th, connected,
                   devices, objs, zclSeqCounter, initOk, nCh, nObj, nOps, nCb>>

----------------------------------------------------------------------------
(* Controller.Close, controller.go:515-527, and the bring-up of            *)
(* NewController, controller.go:46-140, with NegotiateVersion,             *)
(* ezsp.go:252-316                                                         *)

\* an EZSP readLoop that looks at stopChan only when no frame is queued
ezspReaderExitWhenDrained ==
    /\ ezspStopped
    /\ recvChan = <<>>
    /\ ~ezspReaderExited
    /\ ezspReaderExited' = TRUE
    /\ hlast' = [op |-> "ezspReaderExit"]
    /\ AshIdle
    /\ UNCHANGED <<serialOpen, ezspSeq, extendedFormat, responseChan, sinks, ezspStopped,
                   th, connected, devices, objs, zclSeqCounter, initOk, nCh, nObj, nOps,
                   nCb, ncp, nTo, subscribers, subChans, clock, cache, lk, wire, buf>>

\* the EZSP readLoop takes the stopChan case of its select and returns, ezsp.go:169-170
ezspReaderExit ==
    /\ ezspStopped
    /\ ~ezspReaderExited
    /\ ezspReaderExited' = TRUE
    /\ hlast' = [op |-> "ezspReaderExit"]
    /\ AshIdle
    /\ UNCHANGED <<serialOpen, ezspSeq, extendedFormat, responseChan, sinks, ezspStopped,
                   th, connected, devices, objs, zclSeqCounter, initOk, nCh, nObj, nOps,
                   nCb, ncp, nTo, subscribers, subChans, clock, cache, lk, wire, buf>>

\* a Close that leaves the connected flag as it is
ControllerCloseKeepsFlag ==
    /\ ~ezspStopped
    /\ UNCHANGED connected
    /\ ezspStopped' = TRUE
    /\ Close
    /\ serialOpen' = FALSE
    /\ hlast' = [op |-> "Close"]
    /\ UNCHANGED <<ncp, nTo>>
    /\ UNCHANGED <<ezspSeq, extendedFormat, responseChan, sinks, th, devices, objs,
                   zclSeqCounter, initOk, nCh, nObj, nOps, nCb>>

\* Close, called once by the owner of a controller that NewController returned
ControllerClose ==
    /\ ~ezspStopped
    /\ connected' = FALSE
    /\ ezspStopped' = TRUE
    /\ Close
    /\ serialOpen' = FALSE
    /\ hlast' = [op |-> "Close"]
    /\ UNCHANGED <<ncp, nTo>>
    /\ UNCHANGED <<ezspSeq, extendedFormat, responseChan, sinks, th, devices, objs,
                   zclSeqCounter, initOk, nCh, nObj, nOps, nCb>>

ControllerIsConnected == connected /\ IsConnected

\* initStack failed inside NewController: c.Close(), then the error is returned
InitFailed(t, o, err) ==
    /\ connected' = FALSE
    /\ ezspStopped' = TRUE
    /\ Close
    /\ serialOpen' = FALSE
    /\ ReturnFromCommand(t, o, err, <<>>)
    /\ UNCHANGED <<extendedFormat, devices, objs, zclSeqCounter, initOk, nObj, nOps, nCb>>

\* initStack returned nil: the connected flag is set and the controller returned
InitDone(t, o, ext) ==
    /\ connected' = TRUE
    /\ initOk' = TRUE
    /\ extendedFormat' = ext
    /\ ReturnFromCommand(t, o, "", <<>>)
    /\ AshIdle
    /\ UNCHANGED <<serialOpen, ezspStopped, devices, objs, zclSeqCounter, nObj, nOps, nCb>>

\* NewController up to the select of ash.Connect
NewController(t) ==
    /\ th[t].op = "idle"
    /\ nOps = 0
    /\ Connect
    /\ th' = [th EXCEPT ![t] = [IdleThread EXCEPT !.op = "NewController", !.pc = "connect"]]
    /\ hlast' = [Ev(t, Called, FALSE, FALSE, "", <<>>) EXCEPT !.op = "NewController"]
    /\ nOps' = nOps + 1
    /\ UNCHANGED <<ncp, nTo>>
    /\ UNCHANGED <<serialOpen, ezspSeq, extendedFormat, responseChan, sinks, ezspStopped,
                   connected, devices, objs, zclSeqCounter, initOk, nCh, nObj, nCb>>

\* ash.Connect returns: on an error the serial port is closed and NewController fails
ConnectReturn(t) ==
    /\ th[t].op = "NewController"
    /\ th[t].pc = "connect"
    /\ WaitReturn
    /\ IF last'.ok
       THEN /\ th' = [th EXCEPT ![t].pc = "start"]
            /\ hlast' = Ev(t, [k |-> last'.kind, resp |-> <<>>, of |-> -1], FALSE, FALSE, "", <<>>)
            /\ UNCHANGED serialOpen
       ELSE /\ th' = [th EXCEPT ![t] = IdleThread]
            /\ hlast' = Ev(t, [k |-> last'.kind, resp |-> <<>>, of |-> -1], FALSE, TRUE, "ASH connect", <<>>)
            /\ serialOpen' = FALSE
    /\ UNCHANGED <<ncp, nTo>>
    /\ UNCHANGED <<ezspSeq, extendedFormat, responseChan, sinks, ezspStopped, connected,
                   devices, objs, zclSeqCounter, initOk, nCh, nObj, nOps, nCb>>

\* NegotiateVersion up to the select of its first command: the sequence number is
\* reset and version(13) sent
NegotiateVersionBegin(t, op) ==
    /\ SendCommand(t, 0, extendedFormat, responseChan, sinks, ezspVersion,
                   <<ezspProtocolVersion>>, [IdleThread EXCEPT !.op = op, !.pc = "initial"])
    /\ hlast' = [Ev(t, Called, TRUE, FALSE, "", <<>>) EXCEPT !.op = op]
    /\ UNCHANGED nTo
    /\ UNCHANGED <<serialOpen, extendedFormat, ezspStopped, connected, devices, objs,
                   zclSeqCounter, initOk, nObj, nCb>>

\* NegotiateVersion called on the EZSP layer by itself
NegotiateVersion(t) ==
    /\ th[t].op = "idle"
    /\ nOps' = nOps + 1
    /\ NegotiateVersionBegin(t, "NegotiateVersion")

\* NewController after ash.Connect: ezsp.Start, then initStack calls NegotiateVersion
StartAndNegotiate(t) ==
    /\ th[t].op = "NewController"
    /\ th[t].pc = "start"
    /\ UNCHANGED nOps
    /\ NegotiateVersionBegin(t, "NewController")

\* the first setConfigurationValue of ConfigureStack, sent when NegotiateVersion has
\* returned to initStack
ConfigureBegin(t, o, ext) ==
    /\ extendedFormat' = ext
    /\ SendCommand(t, ezspSeq, ext, Deregistered(t), Released(t), ezspSetConfigurationValue,
                   SetConfigValueParams(stackConfigs[1][1], stackConfigs[1][2]),
                   [th[t] EXCEPT !.pc = "config", !.loc = [kd |-> 0, cfg |-> 1]])
    /\ hlast' = Ev(t, o, TRUE, FALSE, "", <<>>)
    /\ Took(o)
    /\ UNCHANGED <<serialOpen, ezspStopped, connected, devices, objs, zclSeqCounter, initOk,
                   nObj, nOps, nCb>>

\* NegotiateVersion has a response of four bytes or more, or of fewer than four
VersionParsed(t, o, resp) ==
    IF Len(resp) < 4
    THEN IF th[t].op = "NewController"
         THEN InitFailed(t, o, "version response too short")
         ELSE /\ ReturnFromCommand(t, o, "version response too short", <<>>)
              /\ AshIdle
              /\ UNCHANGED <<serialOpen, extendedFormat, ezspStopped, connected, devices,
                             objs, zclSeqCounter, initOk, nObj, nOps, nCb>>
    ELSE LET protocolVersion == resp[1]
             stackType == resp[2]
             stackVersion == resp[3] + 256 * resp[4]
             ext == FormatAfterVersion(extendedFormat, protocolVersion)
         IN  IF th[t].op = "NewController"
             THEN ConfigureBegin(t, o, ext)
             ELSE /\ extendedFormat' = ext
                  /\ ReturnFromCommand(t, o, "",
                                       <<protocolVersion, stackType, stackVersion>>)
                  /\ AshIdle
                  /\ UNCHANGED <<serialOpen, ezspStopped, connected, devices, objs,
                                 zclSeqCounter, initOk, nObj, nOps, nCb>>

\* NegotiateVersion from the select of a version command on
NegotiateVersionStep(t) ==
    /\ th[t].op \in {"NegotiateVersion", "NewController"}
    /\ th[t].pc \in {"initial", "retry"}
    /\ \E o \in Outcomes(t) :
          IF o.k # "response"
          THEN IF th[t].op = "NewController"
               THEN InitFailed(t, o, "version negotiation")
               ELSE /\ ReturnFromCommand(t, o, "version negotiation", <<>>)
                    /\ AshIdle
                    /\ UNCHANGED <<serialOpen, extendedFormat, ezspStopped, connected,
                                   devices, objs, zclSeqCounter, initOk, nObj, nOps, nCb>>
          ELSE IF th[t].pc = "initial" /\ Len(o.resp) = 1
          THEN LET ncpVersion == o.resp[1]
                   ext == SwitchBeforeRetry(extendedFormat, ncpVersion)
               IN  /\ extendedFormat' = ext
                   /\ SendCommand(t, ezspSeq, ext, Deregistered(t), Released(t),
                                  ezspVersion, <<ncpVersion>>, [th[t] EXCEPT !.pc = "retry"])
                   /\ hlast' = Ev(t, o, TRUE, FALSE, "", <<>>)
                   /\ Took(o)
                   /\ UNCHANGED <<serialOpen, ezspStopped, connected, devices, objs,
                                  zclSeqCounter, initOk, nObj, nOps, nCb>>
          ELSE VersionParsed(t, o, o.resp)

\* the random PAN id and extended PAN id of initStack, controller.go:126-130
FormChoices ==
    {[panID |-> 1, extPanID |-> <<0, 0, 0, 0, 0, 0, 0, 0>>],
     [panID |-> 65534, extPanID |-> <<255, 1, 2, 3, 4, 5, 6, 7>>]}

\* ConfigureStack from the select of a setConfigurationValue on: a failure is logged,
\* the next value is set, and after the last one initStack calls NetworkInit
ConfigureStep(t) ==
    /\ th[t].op = "NewController"
    /\ th[t].pc = "config"
    /\ \E o \in Outcomes(t) :
          LET i == th[t].loc.cfg
          IN  /\ IF i < Len(stackConfigs)
                 THEN SendCommand(t, ezspSeq, extendedFormat, Deregistered(t), Released(t),
                                  ezspSetConfigurationValue,
                                  SetConfigValueParams(stackConfigs[i + 1][1],
                                                       stackConfigs[i + 1][2]),
                                  [th[t] EXCEPT !.loc = [kd |-> 0, cfg |-> i + 1]])
                 ELSE SendCommand(t, ezspSeq, extendedFormat, Deregistered(t), Released(t),
                                  ezspNetworkInit, <<0, 0>>,
                                  [th[t] EXCEPT !.pc = "networkInit", !.loc = NoLoc])
              /\ hlast' = Ev(t, o, TRUE, FALSE, "", <<>>)
              /\ Took(o)
    /\ UNCHANGED <<serialOpen, extendedFormat, ezspStopped, connected, devices, objs,
                   zclSeqCounter, initOk, nObj, nOps, nCb>>

\* initStack from the select of networkInit on
NetworkInitStep(t) ==
    /\ th[t].op = "NewController"
    /\ th[t].pc = "networkInit"
    /\ \E o \in Outcomes(t) :
          IF o.k # "response" \/ Len(o.resp) < 1
          THEN InitFailed(t, o, "networkInit")
          ELSE IF o.resp[1] = emberSuccess \/ o.resp[1] = emberNetworkUp
          THEN InitDone(t, o, extendedFormat)
          ELSE \E c \in FormChoices :
                  /\ SendCommand(t, ezspSeq, extendedFormat, Deregistered(t), Released(t),
                                 ezspFormNetwork, FormNetworkParams(15, c.panID, c.extPanID),
                                 [th[t] EXCEPT !.pc = "formNetwork"])
                  /\ hlast' = Ev(t, o, TRUE, FALSE, "", <<>>)
                  /\ Took(o)
                  /\ UNCHANGED <<serialOpen, extendedFormat, ezspStopped, connected, devices,
                                 objs, zclSeqCounter, initOk, nObj, nOps, nCb>>

\* initStack from the select of formNetwork on
FormNetworkStep(t) ==
    /\ th[t].op = "NewController"
    /\ th[t].pc = "formNetwork"
    /\ \E o \in Outcomes(t) :
          IF o.k = "response" /\ StatusOk(o.resp)
          THEN InitDone(t, o, extendedFormat)
          ELSE InitFailed(t, o, "form network")

----------------------------------------------------------------------------
(* RemoveDevice and SetDeviceState, controller.go:383-494. A value of the  *)
(* input mapping or of a State mapping is a record with its dynamic type   *)
(* t, its bytes s when it is a string and its number n when it is          *)
(* numeric; an absent key has type "absent".                               *)

RemoveDevice(id) ==
    /\ hlast' = [op |-> "RemoveDevice", id |-> id,
                 err |-> IF id \in DOMAIN devices THEN "" ELSE "NotFound"]
    /\ devices' = Without(devices, id)
    /\ objs' = Collect(objs, Without(devices, id), th)
    /\ nOps' = nOps + 1
    /\ AshIdle
    /\ UNCHANGED <<serialOpen, ezspSeq, extendedFormat, responseChan, sinks, ezspStopped,
                   th, connected, zclSeqCounter, initOk, nCh, nObj, nCb, ncp, nTo>>

\* an On/Off command table that sends On for a token it does not know
onOffCommandLax(upper) ==
    CASE upper = strOFF -> [ok |-> TRUE, cmd |-> zclCmdOff]
      [] upper = strTOGGLE -> [ok |-> TRUE, cmd |-> zclCmdToggle]
      [] OTHER -> [ok |-> TRUE, cmd |-> zclCmdOn]

\* the switch on strings.ToUpper(strVal), controller.go:437-446
onOffCommand(upper) ==
    CASE upper = strON -> [ok |-> TRUE, cmd |-> zclCmdOn]
      [] upper = strOFF -> [ok |-> TRUE, cmd |-> zclCmdOff]
      [] upper = strTOGGLE -> [ok |-> TRUE, cmd |-> zclCmdToggle]
      [] OTHER -> [ok |-> FALSE, cmd |-> 0]

\* the type switch on the brightness value, controller.go:464-474: uint8 of a
\* float64, an int or a json.Number
brightnessLevel(val) ==
    IF val.t \in {"float64", "int", "json.Number"}
    THEN [ok |-> TRUE, level |-> val.n % 256]
    ELSE [ok |-> FALSE, level |-> 0]

\* the values uint8(v) can take, controller.go:465-470: for an int and a json.Number
\* the low eight bits; for a float64 inside 0..255 the number; for a float64 outside,
\* where Go leaves the result to the implementation, the low eight bits of the
\* integer part or either end of the range
brightnessLevels(val) ==
    IF val.t = "float64" /\ val.n \notin 0..255
    THEN {val.n % 256, 0, 255}
    ELSE {brightnessLevel(val).level}

\* nextZCLSeq: the counter is incremented and returned
nextZCLSeq(counter) == (counter + 1) % 256

\* the end of a step of caller t that returns from the operation without being
\* inside SendCommand
ReturnDirect(t, id, in, err, val) ==
    /\ th' = [th EXCEPT ![t] = IdleThread]
    /\ hlast' = [Ev(t, Called, FALSE, TRUE, err, val)
                   EXCEPT !.op = "SetDeviceState", !.loc = [kd |-> 0, id |-> id, in |-> in]]
    /\ AshIdle
    /\ UNCHANGED <<ezspSeq, nCh, ncp, nTo, responseChan, sinks, zclSeqCounter>>

\* SetDeviceState from the brightness key on, for caller t holding the struct kd,
\* after the outcome o of what came before; st is the State mapping of kd by now,
\* rc and sk are the sink map and the channels by now
BrightnessPart(t, o, id, in, kd, st, rc, sk) ==
    LET \* the State mapping of kd when the call began, kept for the record of the step
        before == IF th[t].op = "SetDeviceState" THEN th[t].loc.before ELSE st
    IN
    IF in.brightness.t = "absent"
    THEN \* the updated state is copied and returned
         /\ th' = [th EXCEPT ![t] = IdleThread]
         /\ hlast' = [Ev(t, o, FALSE, TRUE, "", st)
                        EXCEPT !.op = "SetDeviceState", !.loc = [kd |-> kd, id |-> id, in |-> in,
                                                before |-> before]]
         /\ responseChan' = rc
         /\ sinks' = sk
         /\ Took(o)
         /\ AshIdle
         /\ UNCHANGED <<ezspSeq, nCh, ncp, zclSeqCounter>>
    ELSE LET b == brightnessLevel(in.brightness)
         IN  IF ~b.ok
             THEN /\ th' = [th EXCEPT ![t] = IdleThread]
                  /\ hlast' = [Ev(t, o, FALSE, TRUE, "Validation", <<>>)
                                 EXCEPT !.op = "SetDeviceState",
                                        !.loc = [kd |-> kd, id |-> id, in |-> in,
                                                before |-> before]]
                  /\ responseChan' = rc
                  /\ sinks' = sk
                  /\ Took(o)
                  /\ AshIdle
                  /\ UNCHANGED <<ezspSeq, nCh, ncp, zclSeqCounter>>
             ELSE \E level \in brightnessLevels(in.brightness) :
                  LET zseq == nextZCLSeq(zclSeqCounter)
                      payload == BuildMoveToLevelCommand(zseq, level, 10)
                  IN  /\ zclSeqCounter' = zseq
                      /\ SendCommand(t, ezspSeq, extendedFormat, rc, sk, ezspSendUnicast,
                                     SendUnicastParams(objs[kd].NodeID, zclProfileHA,
                                                       zclClusterLevelControl, 1,
                                                       objs[kd].Endpoint, payload),
                                     [op |-> "SetDeviceState", pc |-> "level", cmd |-> NoCmd,
                                      loc |-> [kd |-> kd, id |-> id, in |-> in,
                                               level |-> level, before |-> before]])
                      /\ hlast' = [Ev(t, o, TRUE, FALSE, "", <<>>)
                                     EXCEPT !.op = "SetDeviceState",
                                            !.loc = [kd |-> kd, id |-> id, in |-> in,
                                                before |-> before]]
                      /\ Took(o)

\* SetDeviceState up to its first select or to its return
SetDeviceState(t, id, in) ==
    /\ th[t].op = "idle"
    /\ nOps' = nOps + 1
    /\ UNCHANGED <<serialOpen, extendedFormat, ezspStopped, connected, devices, objs,
                   initOk, nObj, nCb>>
    /\ IF id \notin DOMAIN devices
       THEN ReturnDirect(t, id, in, "NotFound", <<>>)
       ELSE LET kd == devices[id]
            IN  IF in.state.t = "string"
                THEN LET upper == ToUpper(in.state.s)
                         c == onOffCommand(upper)
                     IN  IF ~c.ok
                         THEN ReturnDirect(t, id, in, "Validation", <<>>)
                         ELSE LET zseq == nextZCLSeq(zclSeqCounter)
                                  payload == BuildOnOffCommand(zseq, c.cmd)
                              IN  /\ zclSeqCounter' = zseq
                                  /\ SendCommand(t, ezspSeq, extendedFormat, responseChan,
                                                 sinks, ezspSendUnicast,
                                                 SendUnicastParams(objs[kd].NodeID,
                                                                   zclProfileHA,
                                                                   zclClusterOnOff, 1,
                                                                   objs[kd].Endpoint,
                                                                   payload),
                                                 [op |-> "SetDeviceState", pc |-> "onoff",
                                                  cmd |-> NoCmd,
                                                  loc |-> [kd |-> kd, id |-> id,
                                                           in |-> in, upper |-> upper,
                                                           before |-> objs[kd].State]])
                                  /\ hlast' = [Ev(t, Called, TRUE, FALSE, "", <<>>)
                                                 EXCEPT !.op = "SetDeviceState",
                                                        !.loc = [kd |-> kd, id |-> id,
                                                                 in |-> in]]
                                  /\ UNCHANGED nTo
                ELSE BrightnessPart(t, Called, id, in, kd, objs[kd].State, responseChan,
                                    sinks)

\* a SetDeviceState that echoes a key whenever its unicast was answered, whatever
\* the status of the answer
SetDeviceStateStepEchoAnswered(t) ==
    /\ th[t].op = "SetDeviceState"
    /\ UNCHANGED <<serialOpen, extendedFormat, ezspStopped, connected, devices, initOk,
                   nObj, nOps, nCb>>
    /\ \E o \in Outcomes(t) :
          LET kd == th[t].loc.kd
          IN  IF o.k # "response"
              THEN /\ ReturnFromCommand(t, o, o.k, <<>>)
                   /\ AshIdle
                   /\ objs' = Collect(objs, devices, [th EXCEPT ![t] = IdleThread])
                   /\ UNCHANGED zclSeqCounter
              ELSE IF th[t].pc = "onoff"
              THEN LET st == Put(objs[kd].State, "state", Str(th[t].loc.upper))
                       after == [objs EXCEPT ![kd].State = st]
                   IN  /\ BrightnessPart(t, o, th[t].loc.id, th[t].loc.in, kd, st,
                                         Deregistered(t), Released(t))
                       /\ objs' = Collect(after, devices, th')
              ELSE LET st == Put(objs[kd].State, "brightness", Num("int", th[t].loc.level))
                       after == [objs EXCEPT ![kd].State = st]
                   IN  /\ ReturnFromCommand(t, o, "", st)
                       /\ AshIdle
                       /\ objs' = Collect(after, devices, [th EXCEPT ![t] = IdleThread])
                       /\ UNCHANGED zclSeqCounter

\* SetDeviceState from the select of one of its two unicasts on
SetDeviceStateStep(t) ==
    /\ th[t].op = "SetDeviceState"
    /\ UNCHANGED <<serialOpen, extendedFormat, ezspStopped, connected, devices, initOk,
                   nObj, nOps, nCb>>
    /\ \E o \in Outcomes(t) :
          LET kd == th[t].loc.kd
          IN  IF o.k # "response" \/ ~StatusOk(o.resp)
              THEN /\ ReturnFromCommand(t, o, IF o.k = "response" THEN "status" ELSE o.k, <<>>)
                   /\ AshIdle
                   /\ objs' = Collect(objs, devices, [th EXCEPT ![t] = IdleThread])
                   /\ UNCHANGED zclSeqCounter
              ELSE IF th[t].pc = "onoff"
              THEN LET st == Put(objs[kd].State, "state", Str(th[t].loc.upper))
                       after == [objs EXCEPT ![kd].State = st]
                   IN  /\ BrightnessPart(t, o, th[t].loc.id, th[t].loc.in, kd, st,
                                         Deregistered(t), Released(t))
                       /\ objs' = Collect(after, devices, th')
              ELSE LET st == Put(objs[kd].State, "brightness", Num("int", th[t].loc.level))
                       after == [objs EXCEPT ![kd].State = st]
                   IN  /\ ReturnFromCommand(t, o, "", st)
                       /\ AshIdle
                       /\ objs' = Collect(after, devices, [th EXCEPT ![t] = IdleThread])
                       /\ UNCHANGED zclSeqCounter

----------------------------------------------------------------------------
(* GetDeviceState, controller.go:397-423: lookup, one Read Attributes      *)
(* unicast whose error is only logged, a sleep of 200 ms, and a copy of    *)
(* the cached state                                                        *)

\* GetDeviceState up to the select of its unicast or to its return
GetDeviceState(t, id) ==
    /\ th[t].op = "idle"
    /\ nOps' = nOps + 1
    /\ UNCHANGED <<serialOpen, extendedFormat, ezspStopped, connected, devices, objs,
                   initOk, nObj, nCb>>
    /\ IF id \notin DOMAIN devices
       THEN /\ th' = [th EXCEPT ![t] = IdleThread]
            /\ hlast' = [Ev(t, Called, FALSE, TRUE, "NotFound", <<>>)
                           EXCEPT !.op = "GetDeviceState", !.loc = [kd |-> 0, id |-> id]]
            /\ AshIdle
            /\ UNCHANGED <<ezspSeq, nCh, ncp, nTo, responseChan, sinks, zclSeqCounter>>
       ELSE LET kd == devices[id]
                zseq == nextZCLSeq(zclSeqCounter)
                readOnOff == BuildReadAttributesCommand(zseq, <<zclAttrOnOff>>)
            IN  /\ zclSeqCounter' = zseq
                /\ SendCommand(t, ezspSeq, extendedFormat, responseChan, sinks,
                               ezspSendUnicast,
                               SendUnicastParams(objs[kd].NodeID, zclProfileHA,
                                                 zclClusterOnOff, 1, objs[kd].Endpoint,
                                                 readOnOff),
                               [op |-> "GetDeviceState", pc |-> "read", cmd |-> NoCmd,
                                loc |-> [kd |-> kd, id |-> id]])
                /\ hlast' = [Ev(t, Called, TRUE, FALSE, "", <<>>)
                               EXCEPT !.op = "GetDeviceState", !.loc = [kd |-> kd, id |-> id]]
                /\ UNCHANGED nTo

\* a GetDeviceState that returns the error of its unicast
GetDeviceStateStepStrict(t) ==
    /\ th[t].op = "GetDeviceState"
    /\ th[t].pc = "read"
    /\ \E o \in Outcomes(t) :
          /\ IF o.k = "response" /\ StatusOk(o.resp)
             THEN th' = [th EXCEPT ![t].pc = "sleep", ![t].cmd = NoCmd,
                                   ![t].loc = [kd |-> th[t].loc.kd, id |-> th[t].loc.id,
                                               unicast |-> o.k, resp |-> o.resp]]
             ELSE th' = [th EXCEPT ![t] = IdleThread]
          /\ responseChan' = Deregistered(t)
          /\ sinks' = Released(t)
          /\ hlast' = Ev(t, o, FALSE, ~(o.k = "response" /\ StatusOk(o.resp)),
                         IF o.k # "response" THEN o.k
                         ELSE IF StatusOk(o.resp) THEN "" ELSE "status",
                         <<>>)
          /\ Took(o)
    /\ AshIdle
    /\ UNCHANGED <<serialOpen, ezspSeq, extendedFormat, ezspStopped, connected, devices,
                   objs, zclSeqCounter, initOk, nCh, nObj, nOps, nCb, ncp>>

\* SendUnicast returns, with an error or without, and the caller goes to sleep
GetDeviceStateStep(t) ==
    /\ th[t].op = "GetDeviceState"
    /\ th[t].pc = "read"
    /\ \E o \in Outcomes(t) :
          /\ th' = [th EXCEPT ![t].pc = "sleep", ![t].cmd = NoCmd,
                               ![t].loc = [kd |-> th[t].loc.kd, id |-> th[t].loc.id,
                                           unicast |-> o.k, resp |-> o.resp]]
          /\ responseChan' = Deregistered(t)
          /\ sinks' = Released(t)
          /\ hlast' = Ev(t, o, FALSE, FALSE,
                         IF o.k # "response" THEN o.k
                         ELSE IF StatusOk(o.resp) THEN "" ELSE "status",
                         <<>>)
          /\ Took(o)
    /\ AshIdle
    /\ UNCHANGED <<serialOpen, ezspSeq, extendedFormat, ezspStopped, connected, devices,
                   objs, zclSeqCounter, initOk, nCh, nObj, nOps, nCb, ncp>>

\* the sleep is over: the cached state is copied and returned with a nil error
GetDeviceStateWake(t) ==
    /\ th[t].op = "GetDeviceState"
    /\ th[t].pc = "sleep"
    /\ th' = [th EXCEPT ![t] = IdleThread]
    /\ hlast' = [op |-> "GetDeviceState", t |-> t, pc |-> "sleep", loc |-> th[t].loc,
                 cmd |-> NoCmd, got |-> "wake", resp |-> <<>>, of |-> -1,
                 issued |-> FALSE, done |-> TRUE, err |-> "",
                 val |-> objs[th[t].loc.kd].State]
    /\ objs' = Collect(objs, devices, [th EXCEPT ![t] = IdleThread])
    /\ AshIdle
    /\ UNCHANGED <<serialOpen, ezspSeq, extendedFormat, responseChan, sinks, ezspStopped,
                   connected, devices, zclSeqCounter, initOk, nCh, nObj, nOps, nCb, ncp, nTo>>

----------------------------------------------------------------------------
(* Discovery events, controller.go:295-306 and 530-550. Subscribe,         *)
(* Unsubscribe and publishEvent hold subscribersMu from beginning to end,  *)
(* so each is one step; publishEvent runs in the EZSP reader, inside       *)
(* handleTrustCenterJoin.                                                  *)

\* a channel as made by make(chan device.DiscoveryEvent, n)
NewChan == [buf |-> <<>>, closed |-> FALSE, panic |-> FALSE]

\* close(ch): closing a closed channel panics
CloseChan(c) == IF c.closed THEN [c EXCEPT !.panic = TRUE] ELSE [c EXCEPT !.closed = TRUE]

\* the variables that Subscribe, Unsubscribe and the subscribers leave as they are
SubIdle ==
    /\ AshIdle
    /\ UNCHANGED <<serialOpen, ezspSeq, extendedFormat, responseChan, sinks, ezspStopped,
                   th, connected, devices, objs, zclSeqCounter, initOk, nCh, nObj, nCb,
                   ncp, nTo, ezspReaderExited, clock, cache, lk, wire, buf>>

\* Subscribe: a new channel of 16 slots, appended to the subscribers
Subscribe ==
    LET ch == Cardinality(DOMAIN subChans \ {0}) + 1
    IN  /\ subChans' = Put(subChans, ch, NewChan)
        /\ subscribers' = Append(subscribers, ch)
        /\ hlast' = [op |-> "Subscribe", ch |-> ch]
        /\ nOps' = nOps + 1
        /\ SubIdle

\* an Unsubscribe that closes the channel and leaves it among the subscribers
UnsubscribeKeepRegistered(ch) ==
    /\ subscribers' = subscribers
    /\ subChans' = IF \E i \in DOMAIN subscribers : subscribers[i] = ch
                   THEN [subChans EXCEPT ![ch] = CloseChan(@)]
                   ELSE subChans
    /\ hlast' = [op |-> "Unsubscribe", ch |-> ch]
    /\ nOps' = nOps + 1
    /\ SubIdle

\* Unsubscribe: the first subscriber that is ch is removed and closed
Unsubscribe(ch) ==
    /\ IF \E i \in DOMAIN subscribers : subscribers[i] = ch
       THEN LET i == CHOOSE j \in DOMAIN subscribers :
                        /\ subscribers[j] = ch
                        /\ \A k \in 1..(j - 1) : subscribers[k] # ch
            IN  /\ subscribers' = SubSeq(subscribers, 1, i - 1)
                                     \o SubSeq(subscribers, i + 1, Len(subscribers))
                /\ subChans' = [subChans EXCEPT ![ch] = CloseChan(@)]
       ELSE UNCHANGED <<subscribers, subChans>>
    /\ hlast' = [op |-> "Unsubscribe", ch |-> ch]
    /\ nOps' = nOps + 1
    /\ SubIdle

\* a client makes a channel of its own, which no Subscribe call returned
ClientMakesChan ==
    /\ 0 \notin DOMAIN subChans
    /\ subChans' = Put(subChans, 0, NewChan)
    /\ hlast' = [op |-> "make", ch |-> 0]
    /\ nOps' = nOps + 1
    /\ UNCHANGED subscribers
    /\ SubIdle

\* a client receives from its channel
ClientReceives(ch) ==
    /\ subChans[ch].buf # <<>>
    /\ subChans' = [subChans EXCEPT ![ch].buf = Tail(@)]
    /\ hlast' = [op |-> "receive", ch |-> ch, evt |-> Head(subChans[ch].buf)]
    /\ nOps' = nOps + 1
    /\ UNCHANGED subscribers
    /\ SubIdle

----------------------------------------------------------------------------
(* The locks. Each code path is the sequence of lock operations it makes,  *)
(* in program order; a task that runs a path makes them one at a time and  *)
(* waits while a lock is not free. The readers and the callers run paths   *)
(* again and again.                                                        *)

\* the order of the locks: transport, ASH state, ASH sequences, ASH pending, EZSP
\* responses, controller devices, controller subscribers
LockOrder == <<"serial.mu", "ash.stateMu", "ash.seqMu", "ash.pendingMu", "ezsp.responseMu",
               "controller.devicesMu", "controller.subscribersMu">>

Lk(a, m) == [a |-> a, m |-> m]

\* mu.Lock() ... mu.Unlock() and mu.RLock() ... mu.RUnlock() with no lock operation between
Section(m) == <<Lk("lock", m), Lk("unlock", m)>>
RSection(m) == <<Lk("rlock", m), Lk("runlock", m)>>

\* SerialPort.Write and SerialPort.Close
serialWriteLocks == Section("serial.mu")

\* a SendData that reads the state while it holds the sequence lock
ashSendDataLocksNested ==
    <<Lk("lock", "ash.seqMu"), Lk("rlock", "ash.stateMu"), Lk("runlock", "ash.stateMu"),
      Lk("unlock", "ash.seqMu")>> \o Section("ash.pendingMu") \o serialWriteLocks

\* ASHLayer.SendData
ashSendDataLocks ==
    RSection("ash.stateMu") \o Section("ash.seqMu") \o Section("ash.pendingMu")
        \o serialWriteLocks

\* ASHLayer.Connect and ASHLayer.Reset: the state, then sendRST with its two writes
ashConnectLocks == Section("ash.stateMu") \o serialWriteLocks \o serialWriteLocks

\* ASHLayer.sendACK and ASHLayer.sendNAK
sendACKLocks == Section("ash.seqMu") \o serialWriteLocks

\* ASHLayer.handleRSTACK
handleRSTACKLocks == Section("ash.seqMu") \o Section("ash.pendingMu") \o Section("ash.stateMu")

\* ASHLayer.handleData, answering with an ACK or with a NAK
handleDataLocks == Section("ash.pendingMu") \o Section("ash.seqMu") \o sendACKLocks

\* ASHLayer.handleACK
handleACKLocks == Section("ash.pendingMu")

\* ASHLayer.handleNAK with a retransmission
handleNAKLocks == Section("ash.pendingMu") \o serialWriteLocks

\* ASHLayer.readLoop after a read error, and ASHLayer.Close
ashStopLocks == Section("ash.stopMu")

\* EZSPLayer.SendCommand: sequence, registration, SendData, deferred deregistration
SendCommandLocks ==
    Section("ezsp.seqMu") \o Section("ezsp.responseMu") \o ashSendDataLocks
        \o Section("ezsp.responseMu")

\* EZSPLayer.processFrame for a response
processResponseLocks == Section("ezsp.responseMu")

\* EZSPLayer.processFrame for a callback, into handleTrustCenterJoin and publishEvent
handleTrustCenterJoinLocks ==
    RSection("ezsp.callbackMu") \o Section("controller.devicesMu")
        \o Section("controller.subscribersMu")

\* EZSPLayer.processFrame for a callback, into handleIncomingMessage
handleIncomingMessageLocks == RSection("ezsp.callbackMu") \o Section("controller.devicesMu")

\* Controller.SetDeviceState: lookup, unicast, update of the state, copy
SetDeviceStateLocks ==
    RSection("controller.devicesMu") \o SendCommandLocks \o Section("controller.devicesMu")
        \o RSection("controller.devicesMu")

\* Controller.GetDeviceState: lookup, unicast, copy
GetDeviceStateLocks ==
    RSection("controller.devicesMu") \o SendCommandLocks \o RSection("controller.devicesMu")

\* Controller.RemoveDevice
RemoveDeviceLocks == Section("controller.devicesMu")

\* Controller.IsConnected, which calls ASHLayer.IsConnected under connMu
IsConnectedLocks ==
    <<Lk("rlock", "controller.connMu"), Lk("rlock", "ash.stateMu"),
      Lk("runlock", "ash.stateMu"), Lk("runlock", "controller.connMu")>>

\* Controller.Close: the flag, ASHLayer.Close, SerialPort.Close
ControllerCloseLocks == Section("controller.connMu") \o ashStopLocks \o serialWriteLocks

\* Controller.Subscribe and Controller.Unsubscribe
SubscribeLocks == Section("controller.subscribersMu")

LockPaths ==
    [SendData |-> ashSendDataLocks,
     Connect |-> ashConnectLocks,
     handleRSTACK |-> handleRSTACKLocks,
     handleData |-> handleDataLocks,
     handleACK |-> handleACKLocks,
     handleNAK |-> handleNAKLocks,
     readError |-> ashStopLocks,
     SendCommand |-> SendCommandLocks,
     processResponse |-> processResponseLocks,
     handleTrustCenterJoin |-> handleTrustCenterJoinLocks,
     handleIncomingMessage |-> handleIncomingMessageLocks,
     SetDeviceState |-> SetDeviceStateLocks,
     GetDeviceState |-> GetDeviceStateLocks,
     RemoveDevice |-> RemoveDeviceLocks,
     IsConnected |-> IsConnectedLocks,
     Close |-> ControllerCloseLocks,
     Subscribe |-> SubscribeLocks]

\* the code paths each task runs
LockMenu(t) ==
    CASE t = "ashReader" -> {"handleRSTACK", "handleData", "handleACK", "handleNAK", "readError"}
      [] t = "ezspReader" -> {"processResponse", "handleTrustCenterJoin", "handleIncomingMessage"}
      [] t = "client1" -> {"SetDeviceState", "GetDeviceState", "RemoveDevice", "IsConnected",
                           "Close", "Subscribe", "Connect"}
      [] OTHER -> {"SendCommand", "IsConnected"}

\* the lock operations task t has made in its path, and the one it makes next
LockDone(t) == IF lk[t].path = "" THEN <<>> ELSE SubSeq(LockPaths[lk[t].path], 1, lk[t].i)
LockNext(t) == LockPaths[lk[t].path][lk[t].i + 1]

\* task t holds m, for writing or for reading
Holds(t, m, acquire, release) ==
    \E j \in 1..Len(LockDone(t)) :
        /\ LockDone(t)[j] = Lk(acquire, m)
        /\ \A k \in (j + 1)..Len(LockDone(t)) : LockDone(t)[k] # Lk(release, m)
HoldsW(t, m) == Holds(t, m, "lock", "unlock")
HoldsR(t, m) == Holds(t, m, "rlock", "runlock")

\* the tasks that keep t from making operation ev
Blockers(t, ev) ==
    CASE ev.a = "lock" -> {u \in LockTasks \ {t} : HoldsW(u, ev.m) \/ HoldsR(u, ev.m)}
      [] ev.a = "rlock" -> {u \in LockTasks \ {t} : HoldsW(u, ev.m)}
      [] OTHER -> {}

\* the variables a lock operation leaves as they are
LockIdle ==
    /\ AshIdle
    /\ UNCHANGED <<serialOpen, ezspSeq, extendedFormat, responseChan, sinks, ezspStopped,
                   th, connected, devices, objs, zclSeqCounter, initOk, nCh, nObj, nOps,
                   nCb, ncp, nTo, ezspReaderExited, subscribers, subChans, clock, cache,
                   wire, buf>>

\* task t makes the next lock operation of its path; after the last one it is outside
\* any path
LockStep(t) ==
    /\ lk[t].path # ""
    /\ Blockers(t, LockNext(t)) = {}
    /\ lk' = [lk EXCEPT ![t] = IF lk[t].i + 1 = Len(LockPaths[lk[t].path])
                                THEN [path |-> "", i |-> 0]
                                ELSE [path |-> lk[t].path, i |-> lk[t].i + 1]]
    /\ hlast' = [op |-> "lock"]
    /\ LockIdle

\* task t enters a path
LockBegin(t, name) ==
    /\ lk[t].path = ""
    /\ lk' = [lk EXCEPT ![t] = [path |-> name, i |-> 0]]
    /\ hlast' = [op |-> "enter"]
    /\ LockIdle

----------------------------------------------------------------------------
(* The schema validator, src/pkg/device/schema/validate.go. A schema       *)
(* document is its bytes; the documents of the model are named by strings. *)
(* compile looks the document up under the read lock, and on a miss takes  *)
(* the write lock, looks again, compiles and stores.                       *)

\* nil, the documents Validate skips, two schemas that compile, one of them again with
\* other white space, a document that is not JSON and one that is not a schema
SchemaDocs == {"", "{}", "null", "light", "light ", "switch", "notjson", "notschema"}

\* json.Unmarshal and the jsonschema compiler accept the document
Compiles(doc) == doc \in {"light", "light ", "switch"}

\* the variables the validator leaves as they are
ValIdle ==
    /\ AshIdle
    /\ UNCHANGED <<serialOpen, ezspSeq, extendedFormat, responseChan, sinks, ezspStopped,
                   connected, devices, objs, zclSeqCounter, initOk, nCh, nObj, nCb, ncp,
                   nTo, ezspReaderExited, subscribers, subChans, clock, lk, wire, buf>>

\* Validate up to the end of the read-locked lookup of compile, validate.go:27-48
Validate(t, doc, payloadOk) ==
    /\ th[t].op = "idle"
    /\ nOps' = nOps + 1
    /\ UNCHANGED cache
    /\ IF doc \in {"", "{}", "null"}
       THEN /\ th' = th
            /\ hlast' = [op |-> "Validate", t |-> t, doc |-> doc, step |-> "skip",
                         done |-> TRUE, err |-> ""]
       ELSE IF doc \in DOMAIN cache
       THEN /\ th' = th
            /\ hlast' = [op |-> "Validate", t |-> t, doc |-> doc, step |-> "hit",
                         done |-> TRUE, err |-> IF payloadOk THEN "" ELSE "invalid"]
       ELSE /\ th' = [th EXCEPT ![t] = [IdleThread EXCEPT
                         !.op = "Validate", !.pc = "compile",
                         !.loc = [doc |-> doc, payloadOk |-> payloadOk, call |-> nOps + 1]]]
            /\ hlast' = [op |-> "Validate", t |-> t, doc |-> doc, step |-> "miss",
                         done |-> FALSE, err |-> ""]
    /\ ValIdle

\* a compile that does not look again once it has the write lock
ValidateCompileUnchecked(t) ==
    /\ th[t].op = "Validate"
    /\ th[t].pc = "compile"
    /\ LET doc == th[t].loc.doc
       IN  IF ~Compiles(doc)
           THEN /\ UNCHANGED cache
                /\ hlast' = [op |-> "Validate", t |-> t, doc |-> doc, step |-> "failed",
                             done |-> TRUE, err |-> "compile"]
           ELSE /\ cache' = Put(cache, doc, [schema |-> doc, call |-> th[t].loc.call])
                /\ hlast' = [op |-> "Validate", t |-> t, doc |-> doc, step |-> "compiled",
                             done |-> TRUE,
                             err |-> IF th[t].loc.payloadOk THEN "" ELSE "invalid"]
    /\ th' = [th EXCEPT ![t] = IdleThread]
    /\ UNCHANGED nOps
    /\ ValIdle

\* compile under the write lock: second lookup, json.Unmarshal, Compile, store;
\* validate.go:50-73, and the validation of the payload, validate.go:37
ValidateCompile(t) ==
    /\ th[t].op = "Validate"
    /\ th[t].pc = "compile"
    /\ LET doc == th[t].loc.doc
       IN  IF doc \in DOMAIN cache
           THEN /\ UNCHANGED cache
                /\ hlast' = [op |-> "Validate", t |-> t, doc |-> doc, step |-> "hit2",
                             done |-> TRUE,
                             err |-> IF th[t].loc.payloadOk THEN "" ELSE "invalid"]
           ELSE IF ~Compiles(doc)
           THEN /\ UNCHANGED cache
                /\ hlast' = [op |-> "Validate", t |-> t, doc |-> doc, step |-> "failed",
                             done |-> TRUE, err |-> "compile"]
           ELSE /\ cache' = Put(cache, doc, [schema |-> doc, call |-> th[t].loc.call])
                /\ hlast' = [op |-> "Validate", t |-> t, doc |-> doc, step |-> "compiled",
                             done |-> TRUE,
                             err |-> IF th[t].loc.payloadOk THEN "" ELSE "invalid"]
    /\ th' = [th EXCEPT ![t] = IdleThread]
    /\ UNCHANGED nOps
    /\ ValIdle

----------------------------------------------------------------------------
(* The NCP above the ASH link: it answers the commands it has received, in *)
(* any order and at any time, and reports events in callback frames. Its   *)
(* DATA frames are in sequence and acknowledge every frame sent so far.    *)

\* what the ASH read loop has collected when the flag byte of a frame arrives
Received(raw) ==
    LET crc == crcCCITT(raw)
    IN  ashStuff(raw \o <<HiByte(crc), LoByte(crc)>>)

\* the DATA frame that carries an EZSP payload to the host
NcpFrame(payload) == Received(<<recvSeq * 16 + And7(sendSeq)>> \o payload)

\* a response in the format of the command it answers, with the command's sequence
\* number
NcpResponse(c, params) ==
    IF c.ext
    THEN <<c.seq, 128, 1, c.frameID % 256, (c.frameID \div 256) % 256>> \o params
    ELSE <<c.seq, 128, c.frameID % 256>> \o params

\* the parameters the NCP may answer a command with
NcpAnswers(c) ==
    CASE c.frameID = ezspVersion ->
            {<<7>>, <<8>>, <<8, 2, 90, 0>>, <<7, 2, 90, 1>>, <<8, 2>>}
      [] c.frameID = ezspNetworkInit -> {<<emberSuccess>>, <<emberNotJoined>>, <<emberNetworkUp>>}
      [] OTHER -> {<<emberSuccess>>, <<1>>}

NcpRespond ==
    \E c \in ncp : \E params \in NcpAnswers(c) :
        /\ processFrame(NcpFrame(NcpResponse(c, params)))
        /\ ncp' = ncp \ {c}
        /\ hlast' = [op |-> "NcpRespond", cmd |-> c, params |-> params]
        /\ UNCHANGED <<serialOpen, ezspSeq, extendedFormat, responseChan, sinks, ezspStopped,
                       th, connected, devices, objs, zclSeqCounter, initOk, nCh, nObj, nOps,
                       nCb, nTo>>

\* a callback frame arrives
NcpCallback(payload) ==
    /\ processFrame(NcpFrame(payload))
    /\ hlast' = [op |-> "NcpCallback", payload |-> payload]
    /\ UNCHANGED <<hostState>>

\* the RSTACK frame arrives
NcpRstAck ==
    /\ processFrame(Received(<<ashFrameRSTACK, 2, 2>>))
    /\ HostIdle

----------------------------------------------------------------------------
(* SendData and handleRSTACK lock by lock, ash.go:109-145 and 339-360.     *)
(* SendData releases each lock before it takes the next, and writes after  *)
(* the last release; handleRSTACK resets the sequence numbers, the pending *)
(* table and the state in three critical sections. Each critical section   *)
(* is a step, so that the steps of concurrent callers and of the reader    *)
(* interleave as the goroutines do. wire is kept by these steps.           *)

\* the variables above the ASH layer that these steps leave as they are
RaceIdle ==
    UNCHANGED <<serialOpen, ezspSeq, extendedFormat, responseChan, sinks, ezspStopped,
                connected, devices, objs, zclSeqCounter, initOk, nCh, nObj, nOps, nCb,
                ncp, nTo, ezspReaderExited, subscribers, subChans, clock, cache, lk, buf>>

\* SendData, ash.go:110-115: the state is read under stateMu
sendDataCheck(t, payload) ==
    /\ th[t].op = "idle"
    /\ IF state # ashStateConnected
       THEN /\ th' = th
            /\ hlast' = [op |-> "SendData", t |-> t, pc |-> "check", seq |-> 0, rst |-> nRx,
                         done |-> TRUE, err |-> "not connected"]
       ELSE /\ th' = [th EXCEPT ![t] = [IdleThread EXCEPT
                         !.op = "SendData", !.pc = "seq",
                         !.loc = [payload |-> payload, seq |-> 0, ack |-> 0, rst |-> nRx]]]
            /\ hlast' = [op |-> "SendData", t |-> t, pc |-> "check", seq |-> 0, rst |-> nRx,
                         done |-> FALSE, err |-> ""]
    /\ tx' = <<>>
    /\ last' = NoOp
    /\ UNCHANGED <<state, sendSeq, ackNum, recvSeq, pending, recvChan, connChan, stopped,
                   reader, caller, nAccepted, lastTaken, nSent, nRx, arg, res, wire, buf>>
    /\ RaceIdle

\* SendData, ash.go:117-121: the sequence number is taken under seqMu
sendDataSeq(t) ==
    /\ th[t].op = "SendData"
    /\ th[t].pc = "seq"
    /\ th' = [th EXCEPT ![t].pc = "pending",
                        ![t].loc = [payload |-> th[t].loc.payload, seq |-> sendSeq,
                                    ack |-> recvSeq, rst |-> nRx]]
    /\ sendSeq' = And7(sendSeq + 1)
    /\ nSent' = nSent + 1
    /\ hlast' = [op |-> "SendData", t |-> t, pc |-> "seq", seq |-> sendSeq, rst |-> nRx,
                 done |-> FALSE, err |-> ""]
    /\ tx' = <<>>
    /\ last' = NoOp
    /\ UNCHANGED <<state, ackNum, recvSeq, pending, recvChan, connChan, stopped,
                   reader, caller, nAccepted, lastTaken, nRx, arg, res, wire, buf>>
    /\ RaceIdle

\* the frame of caller t, ash.go:124-126
sendDataFrame(t) == DataFrames[th[t].loc.seq * 16 + And7(th[t].loc.ack), th[t].loc.payload]

\* SendData, ash.go:129-131: the frame is stored under pendingMu
sendDataPending(t) ==
    /\ th[t].op = "SendData"
    /\ th[t].pc = "pending"
    /\ th' = [th EXCEPT ![t].pc = "write"]
    /\ pending' = Put(pending, th[t].loc.seq, sendDataFrame(t))
    /\ hlast' = [op |-> "SendData", t |-> t, pc |-> "pending", seq |-> th[t].loc.seq,
                 rst |-> th[t].loc.rst, done |-> FALSE, err |-> ""]
    /\ tx' = <<>>
    /\ last' = NoOp
    /\ UNCHANGED <<state, sendSeq, ackNum, recvSeq, recvChan, connChan, stopped,
                   reader, caller, nAccepted, lastTaken, nSent, nRx, arg, res, wire, buf>>
    /\ RaceIdle

\* SendData, ash.go:139-144: the frame is written
sendDataWrite(t) ==
    /\ th[t].op = "SendData"
    /\ th[t].pc = "write"
    /\ th' = [th EXCEPT ![t] = IdleThread]
    /\ IF serialOpen
       THEN /\ tx' = <<sendDataFrame(t)>>
            /\ wire' = Append(wire, th[t].loc.seq)
       ELSE /\ tx' = <<>>
            /\ UNCHANGED wire
    /\ hlast' = [op |-> "SendData", t |-> t, pc |-> "write", seq |-> th[t].loc.seq,
                 rst |-> th[t].loc.rst, done |-> TRUE,
                 err |-> IF serialOpen THEN "" ELSE "write"]
    /\ last' = NoOp
    /\ UNCHANGED <<state, sendSeq, ackNum, recvSeq, pending, recvChan, connChan, stopped,
                   reader, caller, nAccepted, lastTaken, nSent, nRx, arg, res>>
    /\ RaceIdle

\* the reader has an RSTACK frame: processFrame up to the end of the first critical
\* section of handleRSTACK, ash.go:342-346
handleRSTACKSeq ==
    /\ reader = "running"
    /\ Decoded(Received(<<ashFrameRSTACK, 2, 2>>)).kind = "RSTACK"
    /\ nRx' = nRx + 1
    /\ sendSeq' = 0
    /\ ackNum' = 0
    /\ recvSeq' = 0
    /\ reader' = "rstack.pending"
    /\ wire' = <<>>
    /\ tx' = <<>>
    /\ last' = [op |-> "handleRSTACK", in |-> <<>>, kind |-> "seq", ok |-> TRUE]
    /\ hlast' = NoEv
    /\ UNCHANGED <<state, pending, recvChan, connChan, stopped, caller, nAccepted,
                   lastTaken, nSent, arg, res, th>>
    /\ RaceIdle

\* handleRSTACK, ash.go:348-350: a new pending table
handleRSTACKPending ==
    /\ reader = "rstack.pending"
    /\ pending' = EmptyMap
    /\ reader' = "rstack.state"
    /\ tx' = <<>>
    /\ last' = [op |-> "handleRSTACK", in |-> <<>>, kind |-> "pending", ok |-> TRUE]
    /\ hlast' = NoEv
    /\ UNCHANGED <<state, sendSeq, ackNum, recvSeq, recvChan, connChan, stopped, caller,
                   nAccepted, lastTaken, nSent, nRx, arg, res, th, wire, buf>>
    /\ RaceIdle

\* handleRSTACK, ash.go:352-359: the state, and the signal to the waiter
handleRSTACKState ==
    /\ reader = "rstack.state"
    /\ state' = ashStateConnected
    /\ connChan' = IF connChan < connChanCap THEN connChan + 1 ELSE connChan
    /\ reader' = IF stopped THEN "exited" ELSE "running"
    /\ tx' = <<>>
    /\ last' = [op |-> "handleRSTACK", in |-> <<>>, kind |-> "state", ok |-> TRUE]
    /\ hlast' = NoEv
    /\ UNCHANGED <<sendSeq, ackNum, recvSeq, pending, recvChan, stopped, caller,
                   nAccepted, lastTaken, nSent, nRx, arg, res, th, wire, buf>>
    /\ RaceIdle

----------------------------------------------------------------------------
(* Specification of the EZSP layer used by itself over a connected ASH     *)
(* link: version negotiation and permitJoining from two goroutines, an NCP *)
(* that answers late or not at all, callback frames in both formats.       *)
(* The version command is the first EZSP command after the ASH connect,    *)
(* ezsp.go:255.                                                            *)

\* operations started, per behaviour
MaxCmds == 2
\* frames the ASH reader processes, per behaviour
MaxEzspRx == 3
\* callback frames the NCP sends once the handler has been given this many
MaxCallbacks == 1

\* callback frames in legacy format: callback bit and a frame id of the callback set
\* (a trust-centre join too short to be handled), bit clear and a frame id of the
\* set, bit set and another frame id; in extended format: a frame id of the set,
\* and another frame id with the callback bit
EzspCallbacks(ext) ==
    IF ext
    THEN {<<0, 144, 1, ezspStackStatusHandler, 0, emberNetworkUp>>,
          <<0, 148, 1, ezspPermitJoining, 0, 0>>}
    ELSE {<<0, 148, ezspTrustCenterJoinHandler, 205, 171>>,
          <<0, 144, ezspStackStatusHandler, emberNetworkUp>>,
          <<0, 148, ezspPermitJoining, 0>>}

\* the caller of Connect has returned from it
Started == caller = "idle" /\ reader # "none"

\* the goroutines are interchangeable: an operation starts on the first idle one
FirstIdle(t) == th[t].op = "idle" /\ \A u \in Threads : u < t => th[u].op # "idle"

NextEzsp ==
    \/ Connect /\ HostIdle
    \/ WaitReturn /\ HostIdle
    \/ caller = "connect" /\ state = ashStateResetPending /\ NcpRstAck
    \/ \E t \in Threads : FirstIdle(t) /\ Started /\ nOps = 0 /\ NegotiateVersion(t) /\ CtlIdle
    \/ \E t \in Threads : NegotiateVersionStep(t) /\ CtlIdle
    \/ \E t \in Threads : FirstIdle(t) /\ Started /\ nOps < MaxCmds /\ PermitJoining(t, 60) /\ CtlIdle
    \/ \E t \in Threads : PermitJoiningReturn(t) /\ CtlIdle
    \/ nRx < MaxEzspRx /\ NcpRespond /\ CtlIdle
    \/ \E p \in EzspCallbacks(extendedFormat) :
          nRx < MaxEzspRx /\ nCb < MaxCallbacks /\ recvChan = <<>> /\ NcpCallback(p)
    \/ ezspReadLoop
    \/ (\E t \in Threads : InCommand(t)) /\ ezspClose /\ CtlIdle

SpecEzsp == Init /\ [][NextEzsp]_vars

----------------------------------------------------------------------------
(* Specification of the bring-up: NewController from the ASH connect to    *)
(* the connected flag, an NCP that answers the command in hand or lets it  *)
(* time out, and Close by the owner of the controller NewController        *)
(* returned. The EZSP reader runs from ezsp.Start on, which precedes the   *)
(* first command.                                                          *)

\* frames the ASH reader processes during the bring-up, per behaviour
MaxUpRx == 11

NextUp ==
    \/ NewController(1) /\ CtlIdle
    \/ nRx < MaxUpRx /\ caller = "connect" /\ state = ashStateResetPending /\ NcpRstAck
    \/ ConnectReturn(1) /\ CtlIdle
    \/ StartAndNegotiate(1) /\ CtlIdle
    \/ NegotiateVersionStep(1) /\ CtlIdle
    \/ ConfigureStep(1) /\ CtlIdle
    \/ NetworkInitStep(1) /\ CtlIdle
    \/ FormNetworkStep(1) /\ CtlIdle
    \/ nRx < MaxUpRx /\ NcpRespond /\ CtlIdle
    \/ nCh > 0 /\ ezspReadLoop
    \/ initOk /\ ControllerClose /\ CtlIdle

SpecUp == Init /\ [][NextUp]_vars

----------------------------------------------------------------------------
(* Specification of the device operations: the controller as NewController *)
(* returns it after a bring-up of eight commands without a timeout         *)
(* (version, six configuration values, networkInit) with an NCP of         *)
(* protocol version 8 or more; trust-centre-join callbacks, SetDeviceState *)
(* and RemoveDevice from one client goroutine, and an NCP that answers     *)
(* late or not at all.                                                     *)

\* client operations started, NewController included, per behaviour
MaxDevOps == 3
\* frames the ASH reader processes, the nine of the bring-up included, per behaviour
MaxDevRx == 12

\* the ASH layer, the EZSP layer and the controller when NewController has returned
AfterBringUp ==
    /\ state = ashStateConnected
    /\ sendSeq = 0
    /\ ackNum = 0
    /\ recvSeq = 0
    /\ pending = EmptyMap
    /\ recvChan = <<>>
    /\ connChan = 0
    /\ stopped = FALSE
    /\ reader = "running"
    /\ caller = "idle"
    /\ serialOpen = TRUE
    /\ ezspSeq = 8
    /\ responseChan = EmptyMap
    /\ sinks = EmptyMap
    /\ ezspStopped = FALSE
    /\ th = [t \in Threads |-> IdleThread]
    /\ connected = TRUE
    /\ devices = EmptyMap
    /\ objs = EmptyMap
    /\ zclSeqCounter = 0
    /\ initOk = TRUE
    /\ ncp = {}
    /\ nAccepted = 8
    /\ lastTaken = 8
    /\ nSent = 8
    /\ nRx = 9
    /\ nCh = 8
    /\ nObj = 0
    /\ nOps = 1
    /\ nCb = 0
    /\ nTo = 0
    /\ ezspReaderExited = FALSE
    /\ subscribers = <<>>
    /\ subChans = EmptyMap
    /\ clock = 0
    /\ cache = EmptyMap
    /\ lk = NoLocks
    /\ wire = <<>>
    /\ buf = <<>>

InitDev ==
    /\ AfterBringUp
    /\ extendedFormat = TRUE
    /\ tx = <<>>
    /\ last = NoOp
    /\ hlast = NoEv
    /\ arg = NoArg
    /\ res = NoRes

\* the two devices of the network: IEEE address as received and as listed
ieeeA == <<17, 34, 51, 68, 85, 102, 119, 136>>
ieeeB == <<2, 0, 0, 0, 0, 0, 0, 1>>
idA == "88:77:66:55:44:33:22:11"
idB == "01:00:00:00:00:00:00:02"

\* parameters of the trust-centre-join callbacks: A joins as 0xABCD, A rejoins as
\* 0x1234, A leaves, B joins as 0x0002
TcJoins ==
    {<<205, 171>> \o ieeeA \o <<1, 0, 0>>,
     <<52, 18>> \o ieeeA \o <<1, 0, 0>>,
     <<205, 171>> \o ieeeA \o <<3, 0, 0>>,
     <<2, 0>> \o ieeeB \o <<0, 0, 0>>}

\* a callback frame in the format in force
CallbackFrame(ext, frameID, params) ==
    IF ext
    THEN <<0, 144, 1, frameID % 256, (frameID \div 256) % 256>> \o params
    ELSE <<0, 148, frameID % 256>> \o params

\* "on", "ON", "Toggle", "dim" as bytes
strLowerOn == <<111, 110>>
strMixedToggle == <<84, 111, 103, 103, 108, 101>>
strDim == <<100, 105, 109>>

\* the input mappings given to SetDeviceState
StateInputs ==
    {[state |-> Str(strLowerOn), brightness |-> Num("int", 200)],
     [state |-> Str(strOFF), brightness |-> Absent],
     [state |-> Str(strMixedToggle), brightness |-> Num("float64", 128)],
     [state |-> Str(strDim), brightness |-> Num("int", 200)],
     [state |-> Num("bool", 1), brightness |-> Absent],
     [state |-> Absent, brightness |-> Str(strDim)]}

\* the calls of SetDeviceState: every input for device A, one for device B
StateCalls ==
    {[id |-> idA, in |-> in] : in \in StateInputs}
    \cup {[id |-> idB, in |-> [state |-> Str(strOFF), brightness |-> Absent]]}

NextDev ==
    \/ \E p \in TcJoins :
          /\ nRx < MaxDevRx
          /\ NcpCallback(CallbackFrame(extendedFormat, ezspTrustCenterJoinHandler, p))
    \/ ezspReadLoop
    \/ \E c \in StateCalls : nOps < MaxDevOps /\ SetDeviceState(1, c.id, c.in) /\ CtlIdle
    \/ SetDeviceStateStep(1) /\ CtlIdle
    \/ \E id \in {idA, idB} : nOps < MaxDevOps /\ RemoveDevice(id) /\ CtlIdle
    \/ nRx < MaxDevRx /\ NcpRespond /\ CtlIdle

SpecDev == InitDev /\ [][NextDev]_vars

-----------------------------------------------------------------------------
(* Specification of SetDeviceState on a table that holds device A, which    *)
(* joins once: the calls of SetCalls one after the other, each unicast      *)
(* answered with success or another status, or timing out.                  *)

\* brightness values inside the range, at its end, and outside it on both sides
SetLevels == {Num("int", 200), Num("int", 254), Num("int", 255), Num("int", 300),
              Num("int", -1), Num("float64", 128), Num("float64", 300),
              Num("float64", -1), Num("json.Number", 256)}
SetCalls ==
    {[state |-> Absent, brightness |-> b] : b \in SetLevels}
    \cup {[state |-> Str(strLowerOn), brightness |-> Num("int", 200)],
          [state |-> Str(strLowerOn), brightness |-> Str(strDim)],
          [state |-> Str(strOFF), brightness |-> Absent]}
\* calls of SetDeviceState, the one of the bring-up counted, per behaviour
MaxSetOps == 3
\* frames the ASH reader processes, the nine of the bring-up included, per behaviour
MaxSetRx == 13

NextSet ==
    \/ /\ devices = EmptyMap
       /\ recvChan = <<>>
       /\ nRx < MaxSetRx
       /\ NcpCallback(CallbackFrame(extendedFormat, ezspTrustCenterJoinHandler,
                                    <<205, 171>> \o ieeeA \o <<1, 0, 0>>))
    \/ ezspReadLoop
    \/ \E in \in SetCalls : /\ devices # EmptyMap
                            /\ nOps < MaxSetOps
                            /\ SetDeviceState(1, idA, in)
                            /\ CtlIdle
    \/ SetDeviceStateStep(1) /\ CtlIdle
    \/ nRx < MaxSetRx /\ NcpRespond /\ CtlIdle

SpecSet == InitDev /\ [][NextSet]_vars

----------------------------------------------------------------------------
(* Specification of the cached state: the controller as NewController      *)
(* returns it, trust-centre-join callbacks, incoming-message callbacks     *)
(* from known and unknown senders, and GetDeviceState from one client      *)
(* goroutine, with an NCP that answers late or not at all.                 *)

\* client operations started, NewController included, per behaviour
MaxMsgOps == 2
\* frames the ASH reader processes, the nine of the bring-up included, per behaviour
MaxMsgRx == 12

\* parameters of the trust-centre-join callbacks: A joins as 0xABCD, B joins as
\* 0x0002, B joins as 0xABCD
MsgJoins ==
    {<<205, 171>> \o ieeeA \o <<1, 0, 0>>,
     <<2, 0>> \o ieeeB \o <<1, 0, 0>>,
     <<205, 171>> \o ieeeB \o <<1, 0, 0>>}

\* parameters of an incoming-message callback: type, APS frame with the cluster, LQI,
\* RSSI, sender, binding index, address index, declared length, message
IncomingParams(clusterID, sender, msgLen, message) ==
    <<0, 4, 1, clusterID % 256, clusterID \div 256, 1, 1, 0, 0, 0, 0, 0, 255, 200,
      sender % 256, sender \div 256, 255, 255, msgLen>> \o message

\* a Read Attributes Response of one record with a value of one byte
ReadResponse(attrID, status, dataType, value) ==
    <<24, 1, 1, attrID % 256, attrID \div 256, status>>
    \o (IF status = 0 THEN <<dataType, value>> ELSE <<>>)

\* the incoming messages: on/off 1 and 0 and level 128 from 0xABCD, on/off from an
\* unknown sender, another cluster, another command, a cluster-specific frame, a
\* message shorter than declared, a failed read of the attribute, another attribute
Incoming ==
    {IncomingParams(6, 43981, 8, ReadResponse(0, 0, 16, 1)),
     IncomingParams(6, 43981, 8, ReadResponse(0, 0, 16, 0)),
     IncomingParams(8, 43981, 8, ReadResponse(0, 0, 32, 128)),
     IncomingParams(6, 39321, 8, ReadResponse(0, 0, 16, 1)),
     IncomingParams(768, 43981, 8, ReadResponse(0, 0, 16, 1)),
     IncomingParams(6, 43981, 8, <<24, 1, 10, 0, 0, 0, 16, 1>>),
     IncomingParams(6, 43981, 8, <<25, 1, 1, 0, 0, 0, 16, 1>>),
     IncomingParams(6, 43981, 9, ReadResponse(0, 0, 16, 1)),
     IncomingParams(6, 43981, 6, ReadResponse(0, 134, 16, 1)),
     IncomingParams(6, 43981, 8, ReadResponse(1, 0, 16, 1))}

NextMsg ==
    \/ \E p \in MsgJoins :
          /\ nRx < MaxMsgRx
          /\ recvChan = <<>>
          /\ NcpCallback(CallbackFrame(extendedFormat, ezspTrustCenterJoinHandler, p))
    \/ \E p \in Incoming :
          /\ nRx < MaxMsgRx
          /\ recvChan = <<>>
          /\ NcpCallback(CallbackFrame(extendedFormat, ezspIncomingMessageHandler, p))
    \/ ezspReadLoop
    \/ \E id \in {idA, idB} : nOps < MaxMsgOps /\ GetDeviceState(1, id) /\ CtlIdle
    \/ GetDeviceStateStep(1) /\ CtlIdle
    \/ GetDeviceStateWake(1) /\ CtlIdle
    \/ nRx < MaxMsgRx /\ recvChan = <<>> /\ NcpRespond /\ CtlIdle

SpecMsg == InitDev /\ [][NextMsg]_vars

----------------------------------------------------------------------------
(* Specification of the discovery events: a device that joins and leaves   *)
(* again and again, clients that subscribe, receive and unsubscribe.       *)

\* Subscribe, Unsubscribe, make and receive operations, counted from the one operation of
\* the bring-up, per behaviour
MaxSubOps == 4
\* frames the ASH reader processes, bring-up included, per behaviour
MaxSubRx == 27

\* device A joins when it is not in the table and leaves when it is
SubJoins ==
    IF idA \in DOMAIN devices
    THEN {<<205, 171>> \o ieeeA \o <<3, 0, 0>>}
    ELSE {<<205, 171>> \o ieeeA \o <<1, 0, 0>>}

NextSub ==
    \/ \E p \in SubJoins :
          /\ nRx < MaxSubRx
          /\ recvChan = <<>>
          /\ NcpCallback(CallbackFrame(extendedFormat, ezspTrustCenterJoinHandler, p))
    \/ ezspReadLoop
    \/ nOps < MaxSubOps /\ Cardinality(DOMAIN subChans \ {0}) < 2 /\ Subscribe
    \/ \E ch \in DOMAIN subChans : nOps < MaxSubOps /\ Unsubscribe(ch)
    \/ \E ch \in DOMAIN subChans : nOps < MaxSubOps /\ ClientReceives(ch)
    \/ nOps < MaxSubOps /\ ClientMakesChan

SpecSub == InitDev /\ [][NextSub]_vars

----------------------------------------------------------------------------
(* Specification of the shutdown: the layers are closed, in either order,  *)
(* while callers wait in Connect, in Reset and in SendCommand. A caller    *)
(* whose select has the closed stopChan among its cases is scheduled and   *)
(* takes one of the cases that are ready; the 5 s timers may fire at any   *)
(* time and are not relied on. Both readers come back to their stop checks *)
(* (the ASH reader when its serial read returns).                          *)

\* frames the ASH reader processes, per behaviour
MaxStopRx == 2

NextStop ==
    \/ Connect /\ HostIdle
    \/ ~stopped /\ nOps > 0 /\ Reset /\ HostIdle
    \/ WaitReturn /\ HostIdle
    \/ nRx < MaxStopRx /\ caller \in {"connect", "reset"} /\ state = ashStateResetPending /\ NcpRstAck
    \/ \E t \in Threads : FirstIdle(t) /\ Started /\ nOps = 0 /\ NegotiateVersion(t) /\ CtlIdle
    \/ \E t \in Threads : NegotiateVersionStep(t) /\ CtlIdle
    \/ nRx < MaxStopRx /\ NcpRespond /\ CtlIdle
    \/ ezspReadLoop
    \/ reader # "none" /\ ezspClose /\ CtlIdle
    \/ reader # "none" /\ ~stopped /\ Close /\ HostIdle
    \/ ezspReaderExit
    \/ ReaderExit /\ HostIdle

SpecStop ==
    /\ Init
    /\ [][NextStop]_vars
    /\ WF_vars(stopped /\ WaitReturn /\ HostIdle)
    /\ \A t \in Threads : WF_vars(ezspStopped /\ NegotiateVersionStep(t) /\ CtlIdle)
    /\ WF_vars(ezspReaderExit)
    /\ WF_vars(ReaderExit /\ HostIdle)

----------------------------------------------------------------------------
(* Specification of the locks: the ASH reader, the EZSP reader and two     *)
(* client callers, each running the code paths of its menu.                *)

NextLock ==
    \/ \E t \in LockTasks : \E name \in LockMenu(t) : LockBegin(t, name)
    \/ \E t \in LockTasks : LockStep(t)

SpecLock == InitDev /\ [][NextLock]_vars

----------------------------------------------------------------------------
(* Specification of the validator: two goroutines that validate payloads   *)
(* against the documents of SchemaDocs.                                    *)

\* Validate calls, per behaviour
MaxValOps == 4

NextVal ==
    \/ \E t \in Threads : \E doc \in SchemaDocs : \E payloadOk \in BOOLEAN :
          nOps < MaxValOps /\ Validate(t, doc, payloadOk)
    \/ \E t \in Threads : ValidateCompile(t)

SpecVal == Init /\ [][NextVal]_vars

----------------------------------------------------------------------------
(* Specification of concurrent senders: two goroutines in SendData, a      *)
(* caller that resets the link, and an NCP that sends RSTACK after a reset *)
(* or on its own.                                                          *)

\* sequence numbers allocated, per behaviour
MaxRaceSends == 3
\* RSTACK frames, per behaviour
MaxRaceRx == 2

NextRace ==
    \/ Connect /\ HostIdle
    \/ nRx < MaxRaceRx /\ Reset /\ HostIdle
    \/ WaitReturn /\ HostIdle
    \/ \E t \in Threads : \E p \in SendPayloads : nSent < MaxRaceSends /\ sendDataCheck(t, p)
    \/ \E t \in Threads : sendDataSeq(t)
    \/ \E t \in Threads : sendDataPending(t)
    \/ \E t \in Threads : sendDataWrite(t)
    \/ nRx < MaxRaceRx /\ handleRSTACKSeq
    \/ handleRSTACKPending
    \/ handleRSTACKState

SpecRace == Init /\ [][NextRace]_vars

----------------------------------------------------------------------------
(* Specification of the serial link byte by byte: the reader is started by    *)
(* Connect, the host sends DATA frames, and the NCP's bytes reach readLoop    *)
(* one at a time. The bytes are those of an ACK frame for frame 0, the four   *)
(* control bytes readLoop knows, the flag byte, and a filler byte that comes  *)
(* in runs long enough to fill the accumulator.                               *)

\* the byte of a long run
LinkFiller == 0
\* the bytes of the ACK frame sendACK(1) before its flag byte
LinkFrameBytes == {129, 96, 89}
LinkBytes == {ashCancelByte, ashSubstitute, ashXON, ashXOFF, ashFlagByte, LinkFiller}
                 \cup LinkFrameBytes
\* bytes of LinkFrameBytes in the accumulator at a time
MaxLinkLen == 4
\* frames the ASH reader processes, per behaviour
MaxLinkRx == 4
\* DATA frames the host sends, per behaviour
MaxLinkSends == 1

AllFiller(s) == \A i \in 1..Len(s) : s[i] = LinkFiller

\* the NCP's next byte: a run of filler bytes is not interrupted by frame bytes
\* before it has nearly filled the accumulator
LinkOffers(b) ==
    /\ nRx < MaxLinkRx
    /\ b = LinkFiller => AllFiller(buf)
    /\ b \in LinkFrameBytes =>
          /\ Cardinality({i \in 1..Len(buf) : buf[i] # LinkFiller}) < MaxLinkLen
          /\ AllFiller(buf) => Len(buf) = 0 \/ Len(buf) >= ashMaxFrameLen - 1
    /\ b = ashFlagByte /\ AllFiller(buf) =>
          Len(buf) = 0 \/ Len(buf) >= ashMaxFrameLen - 1

NextLink ==
    \/ Connect /\ HostIdle
    \/ WaitReturn /\ HostIdle
    \/ buf = <<>> /\ caller = "connect" /\ state = ashStateResetPending /\ NcpRstAck
    \/ \E p \in SendPayloads : nSent < MaxLinkSends /\ SendData(p) /\ HostIdle
    \/ \E b \in LinkBytes : LinkOffers(b) /\ readLoop(b) /\ LinkIdle

SpecLink == Init /\ [][NextLink]_vars

-----------------------------------------------------------------------------
(* Specification of commands on a link that may not be connected: the EZSP *)
(* layer over an ASH layer on which Connect may not have been called yet,  *)
(* may be waiting for its RSTACK, may have timed out, or may be in a       *)
(* Reset. permitJoining stands for any command.                            *)

\* commands issued, per behaviour
MaxRefuseOps == 3
\* frames the ASH reader processes, per behaviour
MaxRefuseRx == 3

NextRefuse ==
    \/ Connect /\ HostIdle
    \/ Reset /\ HostIdle
    \/ WaitReturn /\ HostIdle
    \/ nRx < MaxRefuseRx /\ caller \in {"connect", "reset"} /\ state = ashStateResetPending
          /\ NcpRstAck
    \/ \E t \in Threads : FirstIdle(t) /\ nOps < MaxRefuseOps /\ PermitJoining(t, 60) /\ CtlIdle
    \/ \E t \in Threads : PermitJoiningReturn(t) /\ CtlIdle
    \/ nRx < MaxRefuseRx /\ NcpRespond /\ CtlIdle
    \/ ezspReadLoop

SpecRefuse == Init /\ [][NextRefuse]_vars

----------------------------------------------------------------------------
(* Specification of the ASH layer                                          *)

\* the frames the NCP sends in this specification: DATA frames with frame numbers
\* 0, 1, 2, 5 and acknowledgement numbers 0, 1, 2, 6, ACK and NAK frames with numbers
\* 0, 1, 2, 5, 6, and every frame of PeerFrames that is not DATA, ACK or NAK
SpecFrames ==
    {f \in PeerFrames :
        LET d == PeerDecoded[f]
        IN  CASE d.kind = "DATA" ->
                    /\ And7(d.payload[1] \div 16) \in {0, 1, 2, 5}
                    /\ And7(d.payload[1]) \in {0, 1, 2, 6}
                    /\ (Len(d.payload) = 2 \/ d.payload[1] \in {0, 18})
              [] d.kind \in {"ACK", "NAK"} -> And7(d.payload[1]) \in {0, 1, 2, 5, 6}
              [] OTHER -> TRUE}

Next ==
    \/ Connect /\ HostIdle
    \/ Reset /\ HostIdle
    \/ WaitReturn /\ HostIdle
    \/ \E p \in SendPayloads : nSent < MaxSends /\ SendData(p) /\ HostIdle
    \/ Close /\ HostIdle
    \/ \E f \in SpecFrames : nRx < MaxRx /\ processFrame(f) /\ HostIdle
    \/ ReaderExit /\ HostIdle
    \/ ezspReadLoop

Spec == Init /\ [][Next]_vars

----------------------------------------------------------------------------
(* Specification of a burst of sends: up to MaxWrapSends SendData calls,   *)
(* the NCP answering with a few acknowledgements at most                   *)

MaxWrapSends == 9

WrapFrames ==
    {f \in PeerFrames : PeerDecoded[f].kind = "RSTACK"
                        \/ (PeerDecoded[f].kind = "ACK" /\ PeerDecoded[f].payload[1] = ashFrameACK + 1)}

NextWrap ==
    \/ Connect /\ HostIdle
    \/ WaitReturn /\ HostIdle
    \/ \E p \in SendPayloads : nSent < MaxWrapSends /\ SendData(p) /\ HostIdle
    \/ \E f \in WrapFrames : nRx < MaxRx /\ processFrame(f) /\ HostIdle

SpecWrap == Init /\ [][NextWrap]_vars

----------------------------------------------------------------------------
(* Specification of a flood of DATA frames: up to MaxFloodRx frames from   *)
(* the NCP, in and out of sequence, with the EZSP reader running at any    *)
(* speed                                                                   *)

MaxFloodRx == 18

FloodFrames ==
    {f \in PeerFrames : PeerDecoded[f].kind = "RSTACK"
                        \/ (PeerDecoded[f].kind = "DATA" /\ And7(PeerDecoded[f].payload[1]) = 0
                            /\ Len(PeerDecoded[f].payload) = 2)}

NextFlood ==
    \/ Connect /\ HostIdle
    \/ WaitReturn /\ HostIdle
    \/ \E f \in FloodFrames : nRx < MaxFloodRx /\ processFrame(f) /\ HostIdle
    \/ ezspReadLoop
    \/ Close /\ HostIdle
    \/ ReaderExit /\ HostIdle

SpecFlood == Init /\ [][NextFlood]_vars

----------------------------------------------------------------------------
(* Specification of the pure functions: the input is drawn in the initial  *)
(* state and one step applies the function to it                           *)

\* bytes given to ashStuff in sequences longer than one: the reserved bytes, the
\* bytes they are escaped to, and three ordinary ones
StuffBytes == {126, 125, 17, 19, 24, 26, 94, 93, 49, 51, 56, 58, 0, 32, 255}

\* the sequences of up to len of them, and every single byte
StuffInputs(len) ==
    UNION {[1..n -> StuffBytes] : n \in 0..len} \cup {<<b>> : b \in 0..MaxUint8}

\* bytes given to crcCCITT
CrcBytes == {0, 1, 192, 193, 255}

\* the sequences of up to len of them, and two longer inputs
CrcInputs(len) ==
    UNION {[1..n -> CrcBytes] : n \in 0..len}
    \cup {<<49, 50, 51, 52, 53, 54, 55, 56, 57>>, <<193, 2, 2>>}

PureArgs(stuffLen, crcLen) ==
    {[fn |-> "ashSeqLessThan", a |-> a, b |-> b] : a \in 0..MaxUint8, b \in 0..MaxUint8}
    \cup {[fn |-> "ashStuff", data |-> d] : d \in StuffInputs(stuffLen)}
    \cup {[fn |-> "crcCCITT", data |-> d] : d \in CrcInputs(crcLen)}

InitPure ==
    /\ NewASHLayer
    /\ NewEZSPLayer
    /\ NewControllerFields
    /\ arg \in PureArgs(MaxStuffLen, MaxCrcLen)
    /\ res = NoRes

\* ashSeqLessThan on the two numbers, in both orders
ApplySeqLessThan ==
    /\ arg.fn = "ashSeqLessThan"
    /\ ~res.done
    /\ res' = [done |-> TRUE,
               v |-> ashSeqLessThan(arg.a, arg.b),
               w |-> ashSeqLessThan(arg.b, arg.a)]
    /\ UNCHANGED <<ashVars, hostVars, arg>>

\* ashStuff on the bytes, then ashUnstuff on what it returned
ApplyStuff ==
    /\ arg.fn = "ashStuff"
    /\ ~res.done
    /\ res' = [done |-> TRUE,
               v |-> ashStuff(arg.data),
               w |-> ashUnstuff(ashStuff(arg.data))]
    /\ UNCHANGED <<ashVars, hostVars, arg>>

ApplyCrc ==
    /\ arg.fn = "crcCCITT"
    /\ ~res.done
    /\ res' = [done |-> TRUE, v |-> crcCCITT(arg.data), w |-> 0]
    /\ UNCHANGED <<ashVars, hostVars, arg>>

NextPure ==
    \/ ApplySeqLessThan
    \/ ApplyStuff
    \/ ApplyCrc

SpecPure == InitPure /\ [][NextPure]_vars

-----------------------------------------------------------------------------
(* Specification of the Read Attributes Response parser applied to byte     *)
(* sequences: every sequence of up to MaxParseLen bytes of ParseBytes, alone *)
(* and after one of the records of ParseRecords.                             *)

MaxParseLen == 5
\* zero, an attribute id byte, the types boolean and octet string, and the status
\* UNSUPPORTED_ATTRIBUTE
ParseBytes == {0, 1, 16, 66, 134}
\* a failed record, a boolean, an octet string of one byte and a uint16
ParseRecords == {<<>>, <<0, 0, 134>>, <<0, 0, 0, 16, 1>>, <<1, 0, 0, 66, 1, 16>>,
                 <<1, 0, 0, 33, 0, 1>>}
ParseInputs(len) ==
    {r \o d : r \in ParseRecords, d \in UNION {[1..n -> ParseBytes] : n \in 0..len}}

InitParse ==
    /\ NewASHLayer
    /\ NewEZSPLayer
    /\ NewControllerFields
    /\ arg \in {[fn |-> "ParseReadAttributesResponse", data |-> d] : d \in ParseInputs(MaxParseLen)}
    /\ res = NoRes

\* ParseReadAttributesResponse on the bytes: the map it returns as a set of pairs,
\* and the records it went through
ApplyParse ==
    /\ arg.fn = "ParseReadAttributesResponse"
    /\ ~res.done
    /\ res' = [done |-> TRUE,
               v |-> LET m == ParseReadAttributesResponse(arg.data)
                     IN  {<<a, m[a]>> : a \in DOMAIN m},
               w |-> parseRecords(arg.data, 0)]
    /\ UNCHANGED <<ashVars, hostVars, arg>>

NextParse == ApplyParse

SpecParse == InitParse /\ [][NextParse]_vars

----------------------------------------------------------------------------
(* Properties of the pure functions                                        *)

SeqDone == arg.fn = "ashSeqLessThan" /\ res.done
StuffDone == arg.fn = "ashStuff" /\ res.done
CrcDone == arg.fn = "crcCCITT" /\ res.done

\* p XOR q XOR r
Xor3(p, q, r) == (p # q) # r

\* C5 as stated: for all a, b in 0..7, seq_lt(a,b) XOR seq_lt(b,a) XOR (a = b) is true.
C5_Trichotomy ==
    (SeqDone /\ arg.a \in 0..7 /\ arg.b \in 0..7)
        => Xor3(res.v, res.w, arg.a = arg.b)

\* C5 amended: for all a, b in 0..7 with (b - a) mod 8 other than 4, exactly one of
\* seq_lt(a,b), seq_lt(b,a), a = b is true; when (b - a) mod 8 is 4, seq_lt(a,b) and
\* seq_lt(b,a) are both true.
C5_TrichotomyButOpposite ==
    (SeqDone /\ arg.a \in 0..7 /\ arg.b \in 0..7)
        => IF (arg.b - arg.a) % 8 = 4
           THEN res.v /\ res.w
           ELSE /\ Xor3(res.v, res.w, arg.a = arg.b)
                /\ ~(res.v /\ res.w)

\* C5 witness: the comparison has been applied to two numbers half a window apart
C5_Witness == SeqDone /\ arg.a = 6 /\ arg.b = 2 /\ res.v /\ res.w

\* C6: ashSeqLessThan(a, b) is true exactly when (b - a) mod 8 is one of 1, 2, 3, 4,
\* for all 8-bit a and b; seq_lt(7,0) and seq_lt(0,4) are true and seq_lt(0,5) is false.
C6_SeqLessThan ==
    SeqDone =>
        /\ res.v <=> ((arg.b - arg.a) % 8 \in {1, 2, 3, 4})
        /\ (arg.a = 7 /\ arg.b = 0) => res.v
        /\ (arg.a = 0 /\ arg.b = 4) => res.v
        /\ (arg.a = 0 /\ arg.b = 5) => ~res.v

\* C6 witness: the comparison has been applied to 8-bit numbers above 7 that wrap
C6_Witness == SeqDone /\ arg.a = 255 /\ arg.b = 8 /\ res.v

\* the byte a reserved byte is escaped to
Escaped(b) ==
    CASE b = 126 -> 94
      [] b = 125 -> 93
      [] b = 17 -> 49
      [] b = 19 -> 51
      [] b = 24 -> 56
      [] b = 26 -> 58

\* the stuffing of data as the rule of section 4.2.1 gives it
RECURSIVE StuffedByRule(_)
StuffedByRule(data) ==
    IF data = <<>> THEN <<>>
    ELSE (IF Head(data) \in {126, 125, 17, 19, 24, 26}
          THEN <<125, Escaped(Head(data))>>
          ELSE <<Head(data)>>) \o StuffedByRule(Tail(data))

\* C7: ashUnstuff(ashStuff(b)) equals b for every byte sequence b, and every reserved
\* byte of b is replaced by 0x7D followed by the byte XOR 0x20.
C7_StuffRoundTrip ==
    StuffDone =>
        /\ res.w = arg.data
        /\ res.v = StuffedByRule(arg.data)

\* C7 witness: a sequence with reserved bytes at both ends has been stuffed
C7_Witness ==
    /\ StuffDone
    /\ arg.data = <<26, 0, 126>>
    /\ res.v = <<125, 58, 0, 125, 94>>

\* C8 as stated: crcCCITT of the empty byte sequence is 0x1D0F.
C8_EmptyIs1D0F == (CrcDone /\ arg.data = <<>>) => res.v = 7439

\* C8 amended: crcCCITT of the empty byte sequence is its initial value 0xFFFF;
\* 0x1D0F is its value on the two zero bytes 0x00 0x00 (and the check value of
\* "123456789" is 0x29B1).
C8_EmptyIsInitial ==
    CrcDone =>
        /\ arg.data = <<>> => res.v = 65535
        /\ arg.data = <<0, 0>> => res.v = 7439
        /\ arg.data = <<49, 50, 51, 52, 53, 54, 55, 56, 57>> => res.v = 10673

\* C8 witness: the CRC of the empty byte sequence has been computed
C8_Witness == CrcDone /\ arg.data = <<>> /\ res.v = 65535

----------------------------------------------------------------------------
(* Properties of the ASH layer                                             *)

\* the step just taken processed a frame of this kind
Processed(kind) == last'.op = "processFrame" /\ last'.kind = kind

\* the unstuffed bytes of the frame the step processed, CRC included
RxRaw == ashUnstuff(last'.in)

\* frm_num and ack_num of the control byte of that frame
RxFrmNum == (RxRaw[1] \div 16) % 8
RxAckNum == RxRaw[1] % 8

\* its payload: what lies between the control byte and the CRC
RxBody == SubSeq(RxRaw, 2, Len(RxRaw) - 2)

\* writes is exactly one frame on the wire: control byte c, its CRC, a flag byte
IsControlFrame(writes, c) ==
    /\ Len(writes) = 1
    /\ LET f == writes[1]
           raw == ashUnstuff(SubSeq(f, 1, Len(f) - 1))
       IN  /\ f[Len(f)] = 126
           /\ Len(raw) = 3
           /\ raw[1] = c
           /\ raw[2] * 256 + raw[3] = crcCCITT(<<c>>)

\* C1 as stated: a CRC-valid DATA frame whose frm_num is the expected sequence
\* advances it by one modulo 8, is answered by an ACK with the new value and has its
\* payload handed to EZSP; any other DATA frame leaves the expected sequence, is
\* answered by a NAK with the current value and hands nothing upstream.
C1_ReceiveRule ==
    [][Processed("DATA") =>
        IF RxFrmNum = recvSeq
        THEN /\ recvSeq' = (recvSeq + 1) % 8
             /\ IsControlFrame(tx', 128 + recvSeq')
             /\ Len(recvChan') = Len(recvChan) + 1
             /\ recvChan'[Len(recvChan')].data = RxBody
        ELSE /\ recvSeq' = recvSeq
             /\ IsControlFrame(tx', 160 + recvSeq)
             /\ recvChan' = recvChan]_vars

\* C1 while the receive queue has room: the same rule, for frames that arrive when
\* fewer than 16 payloads are queued
C1_ReceiveRuleWithRoom ==
    [][(Processed("DATA") /\ Len(recvChan) < 16) =>
        IF RxFrmNum = recvSeq
        THEN /\ recvSeq' = (recvSeq + 1) % 8
             /\ IsControlFrame(tx', 128 + recvSeq')
             /\ Len(recvChan') = Len(recvChan) + 1
             /\ recvChan'[Len(recvChan')].data = RxBody
        ELSE /\ recvSeq' = recvSeq
             /\ IsControlFrame(tx', 160 + recvSeq)
             /\ recvChan' = recvChan]_vars

\* the step is one that the claim lets take sequence s out of the pending table
Acknowledges(s) ==
    \/ Processed("RSTACK")
    \/ /\ Processed("ACK") \/ Processed("DATA")
       /\ (RxAckNum - s) % 8 \in {1, 2, 3, 4}

\* C2 as stated: the framed bytes SendData stored under s stay in the pending table,
\* unchanged, until an ACK or DATA frame acknowledging s is processed or an RSTACK
\* clears the table, whatever further SendData calls are made.
C2_Retention ==
    [][/\ (last'.op = "SendData" /\ last'.ok) =>
            /\ sendSeq \in DOMAIN pending'
            /\ tx' = <<pending'[sendSeq]>>
       /\ \A s \in DOMAIN pending :
            \/ s \in DOMAIN pending' /\ pending'[s] = pending[s]
            \/ Acknowledges(s)]_vars

\* C3: an ACK or DATA frame with ack_num a removes from the pending table exactly the
\* entries s with seq_lt(s, a) and leaves the others unchanged; a NAK removes none.
C3_AckRule ==
    [][/\ (Processed("ACK") \/ Processed("DATA")) =>
            /\ DOMAIN pending' = {s \in DOMAIN pending : (RxAckNum - s) % 8 \notin {1, 2, 3, 4}}
            /\ \A s \in DOMAIN pending' : pending'[s] = pending[s]
       /\ Processed("NAK") => pending' = pending]_vars

\* C3 witness: after RSTACK and two sends, an ACK with ack_num 1 has just removed
\* sequence 0 and left sequence 1
C3_Witness ==
    /\ last.op = "processFrame"
    /\ last.kind = "ACK"
    /\ nRx = 2
    /\ nSent = 2
    /\ DOMAIN pending = {1}

\* C4: a NAK with ack_num n makes the reader write again exactly the bytes stored
\* under n, which are the bytes SendData wrote for that frame, and the entry stays;
\* with nothing stored under n nothing is written.
C4_NakRetransmit ==
    [][/\ Processed("NAK") =>
            /\ tx' = IF RxAckNum \in DOMAIN pending THEN <<pending[RxAckNum]>> ELSE <<>>
            /\ pending' = pending
       /\ (last'.op = "SendData" /\ last'.ok) =>
            /\ sendSeq \in DOMAIN pending'
            /\ tx' = <<pending'[sendSeq]>>]_vars

\* C4 witness: a NAK for a pending sequence has just been answered by a retransmission
C4_Witness ==
    /\ last.op = "processFrame"
    /\ last.kind = "NAK"
    /\ Len(tx) = 1
    /\ \E s \in DOMAIN pending : tx[1] = pending[s]

\* C9: every payload the EZSP reader takes was accepted after the one it took before,
\* and everything still queued was accepted after it: payloads leave the queue in the
\* order of acceptance and none is delivered twice.
C9_InOrder ==
    [][last'.op = "ezspRead" =>
        /\ lastTaken' > lastTaken
        /\ lastTaken' <= nAccepted
        /\ \A i \in 1..Len(recvChan') : recvChan'[i].tag > lastTaken']_vars

\* C9 witness: seventeen frames were accepted and one rejected before the reader took
\* its first payload, so the queue was full and the seventeenth payload was dropped
C9_Witness ==
    /\ last.op = "ezspRead"
    /\ lastTaken = 1
    /\ Len(recvChan) = 15
    /\ nAccepted = 17
    /\ nRx = 18

\* C10 as stated: the state moves only along Disconnected -> ResetPending ->
\* Connected -> Disconnected, Connect and Reset give ResetPending, an RSTACK gives
\* Connected, Close gives Disconnected, and once Close has been called IsConnected
\* is false and SendData is refused.
C10_Lifecycle ==
    [][/\ state' # state =>
            <<state, state'>> \in {<<"Disconnected", "ResetPending">>,
                                   <<"ResetPending", "Connected">>,
                                   <<"Connected", "ResetPending">>,
                                   <<"Connected", "Disconnected">>}
       /\ last'.op \in {"Connect", "Reset"} => state' = "ResetPending"
       /\ Processed("RSTACK") => state' = "Connected"
       /\ last'.op = "Close" => state' = "Disconnected"
       /\ stopped' =>
            /\ state' # "Connected"
            /\ last'.op = "SendData" => ~last'.ok]_vars

----------------------------------------------------------------------------
(* C11 .. C14: the EZSP layer                                              *)

\* a step of the operation op of some caller
HostStep(op) == hlast'.op = op

\* a step inside NegotiateVersion that follows a select
Negotiating == HostStep("NegotiateVersion") /\ hlast'.pc \in {"initial", "retry"}

\* C11: the EZSP layer starts in legacy format, the format changes only in a step of
\* version negotiation, and a layer in extended format stays in extended format.
C11_FormatMonotone ==
    /\ ~extendedFormat
    /\ [][/\ extendedFormat => extendedFormat'
          /\ extendedFormat' # extendedFormat => Negotiating]_vars

\* the layer was in extended format for the retry, the NCP then reported protocol
\* version 7, and the layer is still in extended format
C11_Witness ==
    /\ hlast.op = "NegotiateVersion"
    /\ hlast.done
    /\ hlast.pc = "retry"
    /\ hlast.cmd.ext
    /\ Len(hlast.resp) = 4
    /\ hlast.resp[1] = 7
    /\ extendedFormat

\* the step wrote nothing but DATA frames and left the ASH connection as it was
NoAshReset ==
    /\ state' = state
    /\ sendSeq' = And7(sendSeq + 1)
    /\ Len(tx') = 1
    /\ tx'[1] = buildDataFrame(sendSeq * 16 + recvSeq, last'.in)

Returned == hlast'.op \in {"PermitJoining", "NegotiateVersion"} /\ hlast'.got # "call"

\* no other goroutine was inside SendCommand when the call was made, and none is
\* when it returns
Alone == hlast'.cmd.solo /\ \A u \in Threads \ {hlast'.t} : ~InCommand(u)

\* C13 as stated: a SendCommand call that gets no response in time fails; when a call
\* returns, with a timeout, a response, a stopped error or a send error, the sink it
\* registered is no longer in the sink map; and a call made by itself after an earlier
\* one timed out, for the same frame id or another, completes with the response to
\* its own command.
C13_TimeoutKeepsLayerUsable ==
    [][Returned =>
        /\ hlast'.got = "timeout" => (hlast'.done /\ hlast'.err # "")
        /\ \A f \in DOMAIN responseChan' : responseChan'[f] # hlast'.cmd.ch
        /\ (hlast'.got = "response" /\ Alone) => hlast'.of = hlast'.cmd.seq]_vars

\* the sink part of C13 alone
C13_SinkRemoved ==
    [][Returned =>
        /\ hlast'.got = "timeout" => (hlast'.done /\ hlast'.err # "")
        /\ \A f \in DOMAIN responseChan' : responseChan'[f] # hlast'.cmd.ch]_vars

\* the EZSP reader has decoded a frame long enough for the format in force
Dispatched == hlast'.op = "ezspProcessFrame" /\ hlast'.route # "short"

\* C14 as stated: a received frame whose frame id is in the callback set is given to
\* the callback handler and to no response sink, in both formats; so is a legacy
\* frame with the callback bit 0x04 set in its frame control byte.
C14_CallbackDispatch ==
    [][Dispatched =>
        /\ hlast'.frameID \in {36, 69, 63, 25} =>
              (hlast'.route = "handler" /\ sinks' = sinks)
        /\ (~hlast'.ext /\ (hlast'.data[2] \div 4) % 2 = 1) =>
              (hlast'.route = "handler" /\ sinks' = sinks)]_vars

\* what the code does: in extended format the frame id decides, in legacy format
\* the callback bit alone
C14_DispatchByFormat ==
    [][Dispatched =>
        (hlast'.route = "handler" /\ sinks' = sinks)
        <=> IF hlast'.ext THEN hlast'.frameID \in {36, 69, 63, 25}
            ELSE (hlast'.data[2] \div 4) % 2 = 1]_vars

----------------------------------------------------------------------------
(* C15: the controller's connected flag                                    *)

\* C15: Controller.IsConnected returns true only if the ASH layer is in state
\* Connected, initStack has returned nil (version negotiation, configuration and
\* network init or form all done) and Close has not been called.
C15_ConnectedOnlyWhen ==
    ControllerIsConnected => (state = ashStateConnected /\ initOk /\ ~ezspStopped)

\* NewController has just returned a controller after forming a new network, and
\* IsConnected is true
C15_Witness ==
    /\ ControllerIsConnected
    /\ hlast.op = "NewController"
    /\ hlast.done
    /\ hlast.pc = "formNetwork"

\* Close has been called on a controller that was connected, and IsConnected is false
C15_WitnessClosed ==
    /\ hlast.op = "Close"
    /\ initOk
    /\ state = ashStateConnected
    /\ ~ControllerIsConnected

----------------------------------------------------------------------------
(* Claims C16..C20: the device table and SetDeviceState, on SpecDev        *)

\* the step handed a trust-centre-join callback of full length to the handler
TcJoinHandled ==
    /\ HostStep("ezspProcessFrame")
    /\ hlast'.route = "handler"
    /\ hlast'.frameID = 36
    /\ Len(hlast'.params) >= 11

\* the id under which an IEEE address is listed
ListedAs(ieee) ==
    CASE ieee = <<17, 34, 51, 68, 85, 102, 119, 136>> -> "88:77:66:55:44:33:22:11"
      [] ieee = <<2, 0, 0, 0, 0, 0, 0, 1>> -> "01:00:00:00:00:00:00:02"

\* C16: a trust-centre-join callback with a status other than 3 puts the IEEE address
\* into the device table and publishes one device_joined event, a callback with
\* status 3 takes it out and publishes one device_left event, remove_device takes the
\* id out, and no other step changes which ids the table holds; ieee
\* 11 22 33 44 55 66 77 88 is listed as 88:77:66:55:44:33:22:11.
C16_TableMembership ==
    [][IF TcJoinHandled
       THEN LET id == ListedAs(SubSeq(hlast'.params, 3, 10))
            IN  IF hlast'.params[11] # 3
                THEN /\ DOMAIN devices' = DOMAIN devices \cup {id}
                     /\ hlast'.events = <<[type |-> "device_joined", id |-> id]>>
                ELSE /\ DOMAIN devices' = DOMAIN devices \ {id}
                     /\ hlast'.events = <<[type |-> "device_left", id |-> id]>>
       ELSE IF HostStep("RemoveDevice")
       THEN DOMAIN devices' = DOMAIN devices \ {hlast'.id}
       ELSE DOMAIN devices' = DOMAIN devices]_vars

\* node 0xABCD with ieee 11 22 33 44 55 66 77 88 joined and was listed, its leave
\* has just been handled, and the table is empty
C16_Witness ==
    /\ hlast.op = "ezspProcessFrame"
    /\ hlast.route = "handler"
    /\ hlast.params = <<205, 171, 17, 34, 51, 68, 85, 102, 119, 136, 3, 0, 0>>
    /\ hlast.events = <<[type |-> "device_left", id |-> "88:77:66:55:44:33:22:11"]>>
    /\ nObj = 1
    /\ nCb = 2
    /\ nOps = 1
    /\ DOMAIN devices = {}

\* C17 as stated: a join callback with a status other than 3 for an IEEE address
\* already in the table leaves the device entry as it was but for the node id, which
\* is the new short address.
C17_RejoinInPlace ==
    [][(/\ TcJoinHandled
        /\ hlast'.params[11] # 3
        /\ ListedAs(SubSeq(hlast'.params, 3, 10)) \in DOMAIN devices) =>
          LET id == ListedAs(SubSeq(hlast'.params, 3, 10))
              nodeID == hlast'.params[1] + 256 * hlast'.params[2]
          IN  /\ id \in DOMAIN devices'
              /\ objs'[devices'[id]] = [objs[devices[id]] EXCEPT !.NodeID = nodeID]]_vars

\* the part of C17 that the controller keeps: after a rejoin the entry listed for the
\* address carries the new node id, with its device type and endpoint as before
C17_RejoinNodeId ==
    [][(/\ TcJoinHandled
        /\ hlast'.params[11] # 3
        /\ ListedAs(SubSeq(hlast'.params, 3, 10)) \in DOMAIN devices) =>
          LET id == ListedAs(SubSeq(hlast'.params, 3, 10))
              nodeID == hlast'.params[1] + 256 * hlast'.params[2]
          IN  /\ id \in DOMAIN devices'
              /\ objs'[devices'[id]].NodeID = nodeID
              /\ objs'[devices'[id]].DeviceType = objs[devices[id]].DeviceType
              /\ objs'[devices'[id]].Endpoint = objs[devices[id]].Endpoint]_vars

\* a byte string in lower case
LowerStr(s) == [i \in 1..Len(s) |-> IF s[i] \in 65..90 THEN s[i] + 32 ELSE s[i]]

\* "off" and "toggle" as bytes
tokOff == <<111, 102, 102>>
tokToggle == <<116, 111, 103, 103, 108, 101>>

\* a state value that names ON, OFF or TOGGLE in any case
ValidState(v) == v.t = "string" /\ LowerStr(v.s) \in {strLowerOn, tokOff, tokToggle}

\* the On/Off command id and the upper-case token of a valid state value
OnOffId(v) ==
    CASE LowerStr(v.s) = strLowerOn -> 1
      [] LowerStr(v.s) = tokOff -> 0
      [] LowerStr(v.s) = tokToggle -> 2

OnOffToken(v) ==
    CASE LowerStr(v.s) = strLowerOn -> <<79, 78>>
      [] LowerStr(v.s) = tokOff -> <<79, 70, 70>>
      [] LowerStr(v.s) = tokToggle -> <<84, 79, 71, 71, 76, 69>>

\* a brightness value that is an integer or a floating-point number
ValidLevel(v) == v.t \in {"int", "float64"}

\* the step handed the ASH layer a sendUnicast command in extended format, addressed
\* to the node id and endpoint of dev from source endpoint 1 under profile 0x0104,
\* for the cluster given, carrying a ZCL frame with this command id and payload
IsUnicast(dev, cluster, cmdID, payload) ==
    /\ hlast'.issued
    /\ last'.op = "SendData"
    /\ Len(last'.in) = 24 + Len(payload)
    /\ last'.in[4] = 52
    /\ last'.in[5] = 0
    /\ LET p == SubSeq(last'.in, 6, Len(last'.in))
           zcl == SubSeq(p, 17, Len(p))
       IN  /\ p[2] + 256 * p[3] = dev.NodeID
           /\ p[4] + 256 * p[5] = 260
           /\ p[6] + 256 * p[7] = cluster
           /\ p[8] = 1
           /\ p[9] = dev.Endpoint
           /\ p[16] = Len(zcl)
           /\ zcl[3] = cmdID
           /\ SubSeq(zcl, 4, Len(zcl)) = payload

\* a step of a SetDeviceState call whose input has a valid state and a valid
\* brightness, for a device in the table when the call was made
BothValid ==
    /\ HostStep("SetDeviceState")
    /\ ValidState(hlast'.loc.in.state)
    /\ ValidLevel(hlast'.loc.in.brightness)
    /\ hlast'.loc.kd # 0

\* the call got the success status in answer to the unicast it was waiting for
Succeeded == hlast'.got = "response" /\ Len(hlast'.resp) >= 1 /\ hlast'.resp[1] = 0

\* what the call does at its start and after its second unicast
FirstAndLast ==
    /\ hlast'.got = "call" =>
          IsUnicast(objs[hlast'.loc.kd], 6, OnOffId(hlast'.loc.in.state), <<>>)
    /\ (hlast'.got # "call" /\ hlast'.pc = "level") =>
          /\ hlast'.done
          /\ ~hlast'.issued
          /\ tx' = <<>>
          /\ Succeeded =>
                /\ hlast'.err = ""
                /\ hlast'.val["state"] = Str(OnOffToken(hlast'.loc.in.state))
                /\ hlast'.val["brightness"] = Num("int", hlast'.loc.in.brightness.n)
                /\ hlast'.loc.in = [state |-> Str(strLowerOn), brightness |-> Num("int", 200)]
                      => hlast'.val = [state |-> Str(<<79, 78>>), brightness |-> Num("int", 200)]

\* the level unicast that follows the On/Off unicast
LevelUnicast ==
    /\ IsUnicast(objs[hlast'.loc.kd], 8, 4, <<hlast'.loc.in.brightness.n, 10, 0>>)
    /\ hlast'.loc.in.brightness.n = 200 =>
          SubSeq(last'.in, 25, 27) = <<200, 10, 0>>

\* C18 as stated: a call with a valid state and a valid brightness on a known device
\* issues the On/Off unicast and then, whatever came of it, the level unicast.
C18_TwoUnicasts ==
    [][BothValid =>
          /\ FirstAndLast
          /\ (hlast'.got # "call" /\ hlast'.pc = "onoff") => LevelUnicast]_vars

\* C18: a call with a valid state and a valid brightness on a known device first
\* issues a unicast to cluster 0x0006 with the On/Off command id and an empty
\* payload; when that unicast succeeded it issues a second one to cluster 0x0008 with
\* command 0x04 and payload [level, 0x0A, 0x00], and when it did not the call fails
\* and issues nothing more; both go to the node id and endpoint of the device entry
\* the call looked up, under profile 0x0104 from endpoint 1; after the second unicast
\* the call issues nothing, and when it succeeded the mapping returned holds the
\* upper-case state token and the level.
C18_SecondAfterFirstSucceeded ==
    [][BothValid =>
          /\ FirstAndLast
          /\ (hlast'.got # "call" /\ hlast'.pc = "onoff") =>
                IF Succeeded
                THEN LevelUnicast
                ELSE /\ hlast'.done
                     /\ hlast'.err # ""
                     /\ ~hlast'.issued
                     /\ tx' = <<>>]_vars

\* state "on" with brightness 200 went out as two unicasts, both succeeded, and the
\* call returned {state: ON, brightness: 200}
C18_Witness ==
    /\ hlast.op = "SetDeviceState"
    /\ hlast.done
    /\ hlast.pc = "level"
    /\ hlast.got = "response"
    /\ hlast.err = ""
    /\ hlast.loc.in = [state |-> Str(strLowerOn), brightness |-> Num("int", 200)]
    /\ hlast.val = [state |-> Str(<<79, 78>>), brightness |-> Num("int", 200)]

\* the call ended without a unicast, a change of the device table or of a cached
\* state, with this error
Rejected(err) ==
    /\ hlast'.done
    /\ hlast'.err = err
    /\ ~hlast'.issued
    /\ tx' = <<>>
    /\ last'.op # "SendData"
    /\ ncp' = ncp
    /\ zclSeqCounter' = zclSeqCounter
    /\ devices' = devices
    /\ objs' = objs

\* C19: SetDeviceState for an id that is not in the device table fails with NotFound,
\* and for a state string other than ON, OFF or TOGGLE in any case it fails with
\* Validation; either way no unicast is issued and no cached state changes.
C19_RejectedWithoutEffect ==
    [][(HostStep("SetDeviceState") /\ hlast'.got = "call") =>
          /\ hlast'.loc.id \notin DOMAIN devices => Rejected("NotFound")
          /\ (/\ hlast'.loc.id \in DOMAIN devices
              /\ hlast'.loc.in.state.t = "string"
              /\ ~ValidState(hlast'.loc.in.state)) => Rejected("Validation")]_vars

\* a call with state "dim" has just failed with Validation while a device has a
\* cached state
C19_Witness ==
    /\ hlast.op = "SetDeviceState"
    /\ hlast.done
    /\ hlast.err = "Validation"
    /\ hlast.loc.in.state = Str(strDim)
    /\ \E id \in DOMAIN devices : DOMAIN objs[devices[id]].State # {}

\* a call for an id that is not in the table has just failed with NotFound while
\* another device is in the table
C19_WitnessNotFound ==
    /\ hlast.op = "SetDeviceState"
    /\ hlast.done
    /\ hlast.err = "NotFound"
    /\ hlast.loc.id \notin DOMAIN devices
    /\ devices # EmptyMap

\* the step in which a SetDeviceState call for a known device gets to the brightness
\* key of its input
AtBrightness ==
    /\ HostStep("SetDeviceState")
    /\ hlast'.loc.kd # 0
    /\ \/ hlast'.got = "call" /\ ~ValidState(hlast'.loc.in.state)
                              /\ hlast'.loc.in.state.t # "string"
       \/ hlast'.got # "call" /\ hlast'.pc = "onoff" /\ Succeeded

\* C20 as stated: a call whose input has a state value that is not a string, or a
\* brightness value that is neither an integer nor a floating-point number, fails
\* with Validation.
C20_WrongTypeRejected ==
    [][/\ (/\ HostStep("SetDeviceState")
           /\ hlast'.got = "call"
           /\ hlast'.loc.kd # 0
           /\ hlast'.loc.in.state.t \notin {"absent", "string"}) =>
             (hlast'.done /\ hlast'.err = "Validation")
       /\ (AtBrightness /\ hlast'.loc.in.brightness.t \notin {"absent", "int", "float64"}) =>
             (hlast'.done /\ hlast'.err = "Validation")]_vars

\* the part of C20 that the controller keeps: a brightness value of the wrong type
\* fails with Validation
C20_BrightnessTypeRejected ==
    [][(AtBrightness /\ hlast'.loc.in.brightness.t \notin {"absent", "int", "float64"}) =>
          (hlast'.done /\ hlast'.err = "Validation")]_vars

----------------------------------------------------------------------------
(* Claims C21 and C22: GetDeviceState and the incoming messages, on        *)
(* SpecMsg                                                                 *)

\* C21: GetDeviceState for an id that is not in the device table fails with NotFound
\* and issues no unicast; for a device in the table it issues one unicast to cluster
\* 0x0006 holding the global Read Attributes command for attribute 0x0000, issues
\* nothing more when that unicast returns, however it returns, and then returns the
\* cached state of the device with no error.
C21_BestEffortRead ==
    [][HostStep("GetDeviceState") =>
          /\ (hlast'.got = "call" /\ hlast'.loc.id \notin DOMAIN devices) =>
                /\ hlast'.done
                /\ hlast'.err = "NotFound"
                /\ ~hlast'.issued
                /\ tx' = <<>>
                /\ last'.op # "SendData"
                /\ ncp' = ncp
          /\ (hlast'.got = "call" /\ hlast'.loc.id \in DOMAIN devices) =>
                /\ ~hlast'.done
                /\ IsUnicast(objs[devices[hlast'.loc.id]], 6, 0, <<0, 0>>)
                /\ last'.in[22] % 4 = 0
          /\ hlast'.got \in {"response", "timeout", "stopped", "senderr"} =>
                /\ ~hlast'.done
                /\ ~hlast'.issued
                /\ tx' = <<>>
                /\ th'[hlast'.t].op = "GetDeviceState"
                /\ th'[hlast'.t].pc = "sleep"
          /\ hlast'.got = "wake" =>
                /\ hlast'.done
                /\ hlast'.err = ""
                /\ ~hlast'.issued
                /\ tx' = <<>>
                /\ hlast'.val = objs[hlast'.loc.kd].State]_vars

\* a GetDeviceState call whose unicast timed out has returned the cached state
\* {state: ON} with no error
C21_Witness ==
    /\ hlast.op = "GetDeviceState"
    /\ hlast.got = "wake"
    /\ hlast.done
    /\ hlast.err = ""
    /\ hlast.loc.unicast = "timeout"
    /\ hlast.val = [state |-> Str(<<79, 78>>)]

\* a GetDeviceState call whose unicast was answered with a status other than success
\* has returned with no error
C21_WitnessStatus ==
    /\ hlast.op = "GetDeviceState"
    /\ hlast.got = "wake"
    /\ hlast.err = ""
    /\ hlast.loc.unicast = "response"
    /\ hlast.loc.resp # <<>>
    /\ hlast.loc.resp[1] # 0

\* the step gave an incoming-message callback to the handler
IncomingHandled ==
    /\ HostStep("ezspProcessFrame")
    /\ hlast'.route = "handler"
    /\ hlast'.frameID = 69

\* the message of the callback when it is as long as declared, its cluster and
\* its sender
MsgComplete == Len(hlast'.params) >= 19 /\ Len(hlast'.params) >= 19 + hlast'.params[19]
MsgBody == SubSeq(hlast'.params, 20, 19 + hlast'.params[19])
MsgCluster == hlast'.params[4] + 256 * hlast'.params[5]
MsgSender == hlast'.params[15] + 256 * hlast'.params[16]

\* the message is a global Read Attributes Response whose first record is a
\* successful read of attribute 0x0000 with a value of at least one byte
ReportsAttrZero ==
    /\ MsgComplete
    /\ Len(MsgBody) >= 8
    /\ MsgBody[1] % 2 = 0
    /\ MsgBody[3] = 1
    /\ MsgBody[4] = 0
    /\ MsgBody[5] = 0
    /\ MsgBody[6] = 0

\* the cached state of a device after a report of attribute 0x0000 with first value
\* byte v on the cluster
StateAfter(old, cluster, v) ==
    CASE cluster = 6 ->
            [x \in DOMAIN old \cup {"state"} |->
                IF x = "state" THEN Str(IF v # 0 THEN <<79, 78>> ELSE <<79, 70, 70>>)
                ELSE old[x]]
      [] cluster = 8 ->
            [x \in DOMAIN old \cup {"brightness"} |->
                IF x = "brightness" THEN Num("int", v) ELSE old[x]]
      [] OTHER -> old

\* the structs of the device table whose node id is the sender's
FromSender == {devices[id] : id \in {i \in DOMAIN devices : objs[devices[i]].NodeID = MsgSender}}

\* C22: an incoming-message callback leaves the device table as it is; when the message
\* is as long as declared, is a global Read Attributes Response with attribute 0x0000
\* and comes from the node id of a device in the table, one device with that node id
\* gets state ON or OFF (cluster 0x0006, first value byte non-zero or zero) or
\* brightness equal to the first value byte (cluster 0x0008), and nothing else
\* changes; every other message changes nothing.
C22_IncomingRouting ==
    [][IncomingHandled =>
          /\ devices' = devices
          /\ hlast'.events = <<>>
          /\ IF ReportsAttrZero /\ FromSender # {}
             THEN \E k \in FromSender :
                     objs' = [objs EXCEPT ![k].State = StateAfter(@, MsgCluster, MsgBody[8])]
             ELSE objs' = objs]_vars

\* 0xABCD reported on/off 1: device A has state ON, and device B, with another node
\* id, has no cached state
C22_Witness ==
    /\ hlast.op = "ezspProcessFrame"
    /\ hlast.route = "handler"
    /\ hlast.frameID = 69
    /\ {idA, idB} \subseteq DOMAIN devices
    /\ objs[devices[idA]].NodeID = 43981
    /\ objs[devices[idA]].State = [state |-> Str(<<79, 78>>)]
    /\ objs[devices[idB]].NodeID = 2
    /\ objs[devices[idB]].State = EmptyMap

\* 0xABCD reported on/off 0 and then level 128: device A has state OFF and
\* brightness 128
C22_WitnessLevel ==
    /\ hlast.op = "ezspProcessFrame"
    /\ hlast.route = "handler"
    /\ hlast.frameID = 69
    /\ idA \in DOMAIN devices
    /\ objs[devices[idA]].State = [state |-> Str(<<79, 70, 70>>), brightness |-> Num("int", 128)]

\* two devices have the node id 0xABCD and a report from it has changed the cached
\* state of one of them only
C22_WitnessSameNode ==
    /\ hlast.op = "ezspProcessFrame"
    /\ hlast.route = "handler"
    /\ hlast.frameID = 69
    /\ {idA, idB} \subseteq DOMAIN devices
    /\ objs[devices[idA]].NodeID = objs[devices[idB]].NodeID
    /\ objs[devices[idA]].State # objs[devices[idB]].State

----------------------------------------------------------------------------
(* Claims C23 and C24: the discovery events, on SpecSub                    *)

\* the step published an event
Published ==
    /\ HostStep("ezspProcessFrame")
    /\ hlast'.route = "handler"
    /\ hlast'.events # <<>>

\* channel c is among the subscribers
Registered(c) == \E i \in DOMAIN subscribers : subscribers[i] = c

\* buffer b with one more event at its end, of the type and for the device of e
Extended(b, b2, e) ==
    /\ Len(b2) = Len(b) + 1
    /\ SubSeq(b2, 1, Len(b)) = b
    /\ b2[Len(b2)].type = e.type
    /\ b2[Len(b2)].id = e.id

\* C23: the EZSP reader publishes without waiting: it can take its step whenever a
\* frame is queued for it, whatever the subscribers' buffers hold; the step that
\* publishes an event appends it to the buffer of every subscriber with fewer than 16
\* events, leaves the buffer of a subscriber with 16 events as it is, and every buffer
\* holds its events in the order of publication.
C23_FanOutNeverBlocks ==
    /\ [](recvChan # <<>> /\ ~ezspReaderExited => ENABLED ezspReadLoop)
    /\ [](\A c \in DOMAIN subChans :
             /\ Len(subChans[c].buf) <= 16
             /\ \A i \in 1..Len(subChans[c].buf) : \A j \in 1..Len(subChans[c].buf) :
                   i < j => subChans[c].buf[i].ts < subChans[c].buf[j].ts)
    /\ [][Published =>
             /\ Len(hlast'.events) = 1
             /\ subscribers' = subscribers
             /\ DOMAIN subChans' = DOMAIN subChans
             /\ \A c \in DOMAIN subChans :
                   IF Registered(c) /\ Len(subChans[c].buf) < 16
                   THEN /\ Extended(subChans[c].buf, subChans'[c].buf, hlast'.events[1])
                        /\ subChans'[c].closed = subChans[c].closed
                   ELSE subChans'[c] = subChans[c]]_vars

\* the last event published is at the end of the buffer of subscriber 2 and not in the
\* buffer of subscriber 1, which holds 16 older events
C23_Witness ==
    /\ hlast.op = "ezspProcessFrame"
    /\ hlast.route = "handler"
    /\ hlast.events # <<>>
    /\ Len(subscribers) = 2
    /\ Len(subChans[1].buf) = 16
    /\ subChans[2].buf # <<>>
    /\ subChans[2].buf[Len(subChans[2].buf)].ts = clock
    /\ subChans[1].buf[16].ts < clock

\* subscriber 1 lost one event while its buffer was full and got the next one after it
\* had received one
C23_WitnessOnlyThat ==
    /\ hlast.op = "ezspProcessFrame"
    /\ hlast.route = "handler"
    /\ subscribers = <<1>>
    /\ Len(subChans[1].buf) = 16
    /\ subChans[1].buf[16].ts = clock
    /\ subChans[1].buf[15].ts = clock - 2

\* C24: Unsubscribe of a channel among the subscribers removes that channel, keeps the
\* others in their order and closes it; Unsubscribe of any other channel changes
\* nothing; no channel is sent to after it was closed, none is closed twice, and no
\* closed channel is among the subscribers.
C24_UnsubscribeByIdentity ==
    /\ [](\A c \in DOMAIN subChans :
             /\ ~subChans[c].panic
             /\ subChans[c].closed => ~Registered(c))
    /\ [][/\ \A c \in DOMAIN subChans :
                subChans[c].closed =>
                   /\ subChans'[c].closed
                   /\ Len(subChans'[c].buf) <= Len(subChans[c].buf)
          /\ (hlast'.op = "Unsubscribe" /\ nOps' = nOps + 1) =>
                IF Registered(hlast'.ch)
                THEN /\ subscribers' = SelectSeq(subscribers, LAMBDA c : c # hlast'.ch)
                     /\ ~subChans[hlast'.ch].closed
                     /\ subChans' = [subChans EXCEPT ![hlast'.ch].closed = TRUE]
                ELSE /\ subscribers' = subscribers
                     /\ subChans' = subChans]_vars

\* an event was published after subscriber 1 had unsubscribed: the closed channel did
\* not get it, subscriber 2 did
C24_Witness ==
    /\ hlast.op = "ezspProcessFrame"
    /\ hlast.route = "handler"
    /\ hlast.events # <<>>
    /\ subscribers = <<2>>
    /\ subChans[1].closed
    /\ subChans[1].buf # <<>>
    /\ subChans[1].buf[Len(subChans[1].buf)].ts < clock
    /\ subChans[2].buf # <<>>
    /\ subChans[2].buf[Len(subChans[2].buf)].ts = clock

\* a channel was subscribed and unsubscribed twice, with no receive in between
C24_WitnessTwice ==
    /\ hlast.op = "Unsubscribe"
    /\ hlast.ch = 1
    /\ nOps = 4
    /\ DOMAIN subChans = {1}
    /\ subChans[1].closed
    /\ clock > 0
    /\ Len(subChans[1].buf) = clock

\* a channel that no Subscribe call returned was unsubscribed while another channel
\* was registered: it is open
C24_WitnessUnregistered ==
    /\ hlast.op = "Unsubscribe"
    /\ hlast.ch = 0
    /\ subscribers = <<1>>
    /\ ~subChans[0].closed
    /\ ~subChans[1].closed

----------------------------------------------------------------------------
(* Claim C25: shutdown, on SpecStop                                        *)

\* caller t waits in the select of SendCommand
Suspended(t) == InCommand(t) /\ th[t].cmd.sent

\* C25 (as stated): once the layers are closed, a caller that waits in SendCommand
\* returns with the stopped error, and so does a caller that waits in Connect or Reset.
C25_ReturnsStoppedError ==
    /\ \A t \in Threads :
          (ezspStopped /\ stopped /\ Suspended(t))
             ~> (hlast.op = "NegotiateVersion" /\ hlast.t = t /\ hlast.done
                 /\ hlast.got = "stopped")
    /\ (ezspStopped /\ stopped /\ caller # "idle")
          ~> (last.op = "return" /\ last.kind = "stopped")

\* C25 (amended): once the EZSP layer is closed every caller that waits in SendCommand
\* eventually returns, and once the ASH layer is closed every caller that waits in
\* Connect or Reset eventually returns; a caller that returns from its wait after the
\* close with neither a response nor a timeout returns the stopped error; the EZSP
\* reader and the ASH reader eventually terminate.
C25_ShutdownWakesWaiters ==
    /\ \A t \in Threads : (ezspStopped /\ Suspended(t)) ~> (th[t].op = "idle")
    /\ (stopped /\ caller # "idle") ~> (caller = "idle")
    /\ ezspStopped ~> ezspReaderExited
    /\ (stopped /\ reader = "running") ~> (reader = "exited")
    /\ [][/\ \A t \in Threads :
                (ezspStopped /\ Suspended(t) /\ th'[t] # th[t]
                     /\ hlast'.got \notin {"response", "timeout"}) =>
                   /\ hlast'.got = "stopped"
                   /\ hlast'.done
                   /\ hlast'.err # ""
                   /\ th'[t].op = "idle"
          /\ (stopped /\ caller # "idle" /\ caller' = "idle"
                 /\ last'.kind \notin {"established", "timeout"}) =>
                /\ last'.kind = "stopped"
                /\ ~last'.ok]_vars

\* both layers are closed, both readers have terminated, no caller waits in Connect or
\* Reset, and the caller that waited in SendCommand has returned the stopped error
C25_Witness ==
    /\ ezspStopped
    /\ stopped
    /\ ezspReaderExited
    /\ reader = "exited"
    /\ hlast.op = "NegotiateVersion"
    /\ hlast.cmd.sent
    /\ hlast.done
    /\ hlast.got = "stopped"
    /\ caller = "idle"
    /\ \A t \in Threads : th[t].op = "idle"

\* both layers are closed, both readers have terminated, no caller waits in
\* SendCommand, and the caller that waited in Reset has returned the stopped error
C25_WitnessReset ==
    /\ ezspStopped
    /\ stopped
    /\ ezspReaderExited
    /\ reader = "exited"
    /\ last.op = "return"
    /\ last.kind = "stopped"
    /\ state = ashStateResetPending
    /\ nOps > 0
    /\ caller = "idle"
    /\ \A t \in Threads : th[t].op = "idle"

\* the layers are closed and the caller that waited in SendCommand has returned a
\* response
C25_WitnessResponse ==
    /\ hlast.op = "NegotiateVersion"
    /\ hlast.cmd.sent
    /\ hlast.done
    /\ hlast.got = "response"
    /\ ezspStopped
    /\ stopped

----------------------------------------------------------------------------
(* Claim C26: the lock order, on SpecLock                                  *)

\* the place of a lock in the order, 0 for a lock that is not in it
Rank(m) == IF \E i \in DOMAIN LockOrder : LockOrder[i] = m
           THEN CHOOSE i \in DOMAIN LockOrder : LockOrder[i] = m
           ELSE 0

\* task t is about to acquire a lock
Acquiring(t) == lk[t].path # "" /\ LockNext(t).a \in {"lock", "rlock"}

\* the tasks of S wait for locks that tasks of S hold
WaitCycle(S) ==
    \A t \in S : Acquiring(t) /\ Blockers(t, LockNext(t)) \cap S # {}

\* C26: a task that is about to acquire a lock of the order holds no lock that comes
\* later in the order (nor that lock itself), and no set of tasks waits for locks held
\* inside the set.
C26_LockOrdering ==
    /\ \A t \in LockTasks :
          (Acquiring(t) /\ Rank(LockNext(t).m) > 0) =>
             \A i \in DOMAIN LockOrder :
                (HoldsW(t, LockOrder[i]) \/ HoldsR(t, LockOrder[i])) => i < Rank(LockNext(t).m)
    /\ \A S \in SUBSET LockTasks : S # {} => ~WaitCycle(S)

\* the ASH reader holds the pending lock and a caller in SendData waits for it, while a
\* caller holds the devices lock and the EZSP reader waits for it
C26_Witness ==
    /\ HoldsW("ashReader", "ash.pendingMu")
    /\ Acquiring("client2")
    /\ LockNext("client2") = Lk("lock", "ash.pendingMu")
    /\ Blockers("client2", LockNext("client2")) = {"ashReader"}
    /\ HoldsW("client1", "controller.devicesMu")
    /\ Acquiring("ezspReader")
    /\ Blockers("ezspReader", LockNext("ezspReader")) = {"client1"}

\* a caller in IsConnected holds the connection lock and the ASH state lock at once
C26_WitnessNested ==
    /\ HoldsR("client1", "controller.connMu")
    /\ HoldsR("client1", "ash.stateMu")

----------------------------------------------------------------------------
(* Claim C27: the schema cache, on SpecVal                                 *)

\* C27: the cache holds compiled schemas only for documents that compile and are none
\* of the empty document, {} and null; a step compiles a document only when the cache
\* has no entry for it, and adds the entry for that document and no other; an entry,
\* once in the cache, stays and is never replaced; a call that ends without a compile
\* error for a document that is not skipped leaves an entry for it in the cache; a call
\* with a skipped document ends at once with no error and no change of the cache.
C27_OneEntryPerSchema ==
    /\ [](\A d \in DOMAIN cache :
             /\ d \notin {"", "{}", "null"}
             /\ Compiles(d)
             /\ cache[d].schema = d)
    /\ [][/\ \A d \in DOMAIN cache : d \in DOMAIN cache' /\ cache'[d] = cache[d]
          /\ HostStep("Validate") =>
                /\ hlast'.step = "compiled" =>
                      /\ hlast'.doc \notin DOMAIN cache
                      /\ DOMAIN cache' = DOMAIN cache \cup {hlast'.doc}
                /\ hlast'.step # "compiled" => cache' = cache
                /\ hlast'.doc \in {"", "{}", "null"} =>
                      /\ hlast'.step = "skip"
                      /\ hlast'.done
                      /\ hlast'.err = ""
                /\ (hlast'.done /\ hlast'.step # "skip" /\ hlast'.err # "compile") =>
                      hlast'.doc \in DOMAIN cache'
                /\ (hlast'.done /\ hlast'.err = "compile") =>
                      hlast'.doc \notin DOMAIN cache']_vars

\* two goroutines missed the same schema under the read lock; the second one found the
\* entry of the first under the write lock, and the cache holds that one entry
C27_Witness ==
    /\ hlast.op = "Validate"
    /\ hlast.step = "hit2"
    /\ hlast.t = 2
    /\ hlast.doc = "light"
    /\ nOps = 2
    /\ DOMAIN cache = {"light"}
    /\ cache["light"].call = 1
    /\ \A t \in Threads : th[t].op = "idle"

\* four validations, of two schemas, of {} and of a document that does not compile,
\* have left two entries
C27_WitnessTwoSchemas ==
    /\ nOps = 4
    /\ DOMAIN cache = {"light", "switch"}
    /\ hlast.op = "Validate"
    /\ hlast.err = "compile"

----------------------------------------------------------------------------
(* Claims C28 and C29: concurrent senders and the RSTACK, on SpecRace      *)

\* the step that completes the handling of an RSTACK: the last critical section of
\* handleRSTACK and the signal
RstackCompletes == reader = "rstack.state" /\ reader' # "rstack.state"

\* caller t took its sequence number before the last RSTACK was received
PreReset(t) ==
    /\ th[t].op = "SendData"
    /\ th[t].pc \in {"pending", "write"}
    /\ th[t].loc.rst < nRx

\* a step by which a caller stores, in the table that the reset has already replaced, a
\* frame framed with a sequence number from before the reset
StoresStale ==
    \E t \in Threads :
        /\ PreReset(t)
        /\ th[t].pc = "pending"
        /\ th'[t].pc = "write"
        /\ reader # "rstack.pending"

\* C28: in the state reached when the handling of an RSTACK completes, the send
\* sequence is 0, the expected receive sequence is 0, the pending table is empty and
\* the state is Connected, whatever a concurrent SendData does; and no frame framed
\* with a pre-reset sequence number is stored in the pending table after the reset.
C28_ResetUnderInterleaving ==
    [][ /\ RstackCompletes =>
            /\ sendSeq' = 0
            /\ recvSeq' = 0
            /\ pending' = EmptyMap
            /\ state' = ashStateConnected
        /\ ~StoresStale ]_vars

\* what the reader alone writes is as the claim says at completion: the expected
\* receive sequence, the acknowledged number and the state
C28_ReaderOwnedFields ==
    [][ RstackCompletes =>
            /\ recvSeq' = 0
            /\ ackNum' = 0
            /\ state' = ashStateConnected ]_vars

\* a caller took a sequence number between the first and the last critical section of
\* handleRSTACK, and the handling completes with a send sequence of 1
C28_WitnessAllocDuringReset ==
    /\ last.op = "handleRSTACK"
    /\ last.kind = "state"
    /\ sendSeq = 1
    /\ state = ashStateConnected

\* a caller that took its number before the reset has stored its frame after it
C28_WitnessStaleFrame ==
    /\ reader = "running"
    /\ hlast.op = "SendData"
    /\ hlast.pc = "pending"
    /\ hlast.rst < nRx
    /\ pending # EmptyMap
    /\ sendSeq = 0

\* the frm_num of the frames written since the last RSTACK advance by one modulo 8
WireInOrder == \A i \in 1..(Len(wire) - 1) : wire[i + 1] = And7(wire[i] + 1)

\* two callers that took their sequence numbers since the same RSTACK hold different
\* numbers
UniqueSeq ==
    \A t1, t2 \in Threads :
        ( /\ t1 # t2
          /\ th[t1].op = "SendData" /\ th[t1].pc \in {"pending", "write"}
          /\ th[t2].op = "SendData" /\ th[t2].pc \in {"pending", "write"}
          /\ th[t1].loc.rst = th[t2].loc.rst )
        => th[t1].loc.seq # th[t2].loc.seq

\* C29: between two RSTACKs the DATA frames written to the serial port carry frm_num
\* values that advance by exactly one modulo 8 from one written frame to the next,
\* and no two concurrent SendData callers are assigned the same sequence number.
C29_WireOrder == WireInOrder /\ UniqueSeq

\* the half of C29 that holds: the numbers are taken under seqMu, so two callers
\* never hold the same one
C29_UniqueSeq == UniqueSeq

\* two callers hold their numbers at once
C29_WitnessTwoCallers ==
    /\ \A t \in Threads : th[t].op = "SendData" /\ th[t].pc = "write"
    /\ th[1].loc.rst = th[2].loc.rst

\* the second number was written before the first
C29_WitnessOutOfOrder ==
    /\ wire = <<1, 0>>
    /\ nRx = 1

----------------------------------------------------------------------------
(* Claim C30: one outstanding command per frame id, on SpecEzsp            *)

\* caller t's response sink is the one registered for its frame id
OwnSinkRegistered(t) ==
    /\ th[t].cmd.frameID \in DOMAIN responseChan
    /\ responseChan[th[t].cmd.frameID] = th[t].cmd.ch

\* no two callers are inside SendCommand with the same frame id
NoSharedFrameId ==
    \A t1, t2 \in Threads :
        (t1 # t2 /\ InCommand(t1) /\ InCommand(t2))
            => th[t1].cmd.frameID # th[t2].cmd.frameID

\* a step by which caller t returns from SendCommand leaves the registered sink of
\* every other caller registered
ReturnKeepsOthers ==
    \A t, u \in Threads :
        ( /\ t # u
          /\ InCommand(t) /\ th'[t].op = "idle"
          /\ InCommand(u) /\ OwnSinkRegistered(u) )
        => OwnSinkRegistered(u)'

\* C30: at no time are two SendCommand calls with the same frame id outstanding, for
\* every interleaving of concurrent client callers; consequently a returning
\* SendCommand never removes a response sink registered by another call.
C30_OneOutstandingPerFrameId == [][ NoSharedFrameId' /\ ReturnKeepsOthers ]_vars

\* two permit_join calls are outstanding at once, both with frame id 0x22
C30_WitnessSharedId ==
    /\ \A t \in Threads : InCommand(t) /\ th[t].op = "PermitJoining"
    /\ th[1].cmd.frameID = th[2].cmd.frameID
    /\ th[1].cmd.ch # th[2].cmd.ch

\* one of them has returned and its deferred delete has removed the sink the other
\* one registered: no response can reach the call still waiting
C30_WitnessSinkRemoved ==
    /\ hlast.op = "PermitJoining"
    /\ hlast.done
    /\ \E u \in Threads :
          /\ InCommand(u)
          /\ th[u].cmd.sent
          /\ th[u].cmd.frameID = ezspPermitJoining
          /\ ezspPermitJoining \notin DOMAIN responseChan

----------------------------------------------------------------------------
(* Claims C31 and C32: which response a SendCommand call returns, on       *)
(* SpecEzsp                                                                *)

\* the EZSP reader has a response frame in hand: a frame long enough that is not a
\* callback
ResponseInHand == Dispatched /\ hlast'.route \in {"sink", "none"}

\* the response in hand answers a command whose call is still waiting for it
Awaited ==
    \E t \in Threads :
        /\ InCommand(t)
        /\ th[t].cmd.sent
        /\ th[t].cmd.seq = hlast'.data[1]
        /\ th[t].cmd.frameID = hlast'.frameID

\* C31: a SendCommand call returns only the response to its own command; a response
\* frame that arrives after the command it answers has timed out is discarded, and is
\* never returned to a later SendCommand call issued for the same frame id.
C31_OwnResponseOnly ==
    [][ /\ (ResponseInHand /\ ~Awaited) => (hlast'.route = "none" /\ sinks' = sinks)
        /\ (Returned /\ hlast'.got = "response" /\ Alone) => hlast'.of = hlast'.cmd.seq ]_vars

\* the late response is discarded when no call has registered a sink under its frame
\* id since
C31_LateDroppedWithoutSink ==
    [][ (ResponseInHand /\ ~Awaited /\ hlast'.frameID \notin DOMAIN responseChan)
            => (hlast'.route = "none" /\ sinks' = sinks) ]_vars

\* a late response has been discarded
C31_WitnessDropped ==
    /\ hlast.op = "ezspProcessFrame"
    /\ hlast.route = "none"
    /\ hlast.frameID = ezspPermitJoining
    /\ nTo = 1

\* the second permitJoining call, made by itself after the first one timed out, has
\* returned the response to the first
C31_WitnessStaleReturned ==
    /\ hlast.op = "PermitJoining"
    /\ hlast.done
    /\ hlast.got = "response"
    /\ hlast.cmd.solo
    /\ hlast.of # hlast.cmd.seq
    /\ nTo = 1

\* the response in hand goes to the sink registered under its frame id, which belongs
\* to a call for that frame id, and to no other sink
RoutedByFrameId ==
    /\ hlast'.frameID \in DOMAIN responseChan
    /\ hlast'.ch = responseChan[hlast'.frameID]
    /\ \A c \in DOMAIN sinks : c # hlast'.ch => sinks'[c] = sinks[c]
    /\ \A t \in Threads :
          (InCommand(t) /\ th[t].cmd.ch = hlast'.ch) => th[t].cmd.frameID = hlast'.frameID

\* the response in hand is dropped: apart from the receive queue it was taken from,
\* nothing changes
DroppedWithoutEffect ==
    /\ hlast'.route = "none"
    /\ UNCHANGED <<sinks, responseChan, th, devices, objs, ezspSeq, extendedFormat,
                   connected, subscribers, subChans, state, sendSeq, recvSeq, ackNum,
                   pending>>
    /\ tx' = <<>>

\* C32: with commands outstanding on distinct frame ids, a response frame goes to the
\* sink of the call registered under its frame id and to no other, so that each call
\* returns the parameters of the response to its own command whatever the order in
\* which the responses arrive; a response frame whose frame id has no registered sink
\* is dropped and changes no sink and no other state.
C32_RoutingByFrameId ==
    [][ /\ (ResponseInHand /\ hlast'.frameID \in DOMAIN responseChan)
            => (hlast'.route = "sink" /\ RoutedByFrameId)
        /\ (ResponseInHand /\ hlast'.frameID \notin DOMAIN responseChan)
            => DroppedWithoutEffect
        /\ (Returned /\ hlast'.got = "response")
            => /\ sinks[hlast'.cmd.ch][1].fid = hlast'.cmd.frameID
               /\ sinks[hlast'.cmd.ch][1].params = hlast'.resp ]_vars

\* version and permitJoining are outstanding together, and the response to the later
\* command, permitJoining, has arrived first
C32_Witness ==
    /\ th[1].op = "NegotiateVersion" /\ InCommand(1) /\ th[1].cmd.sent
    /\ th[2].op = "PermitJoining" /\ InCommand(2) /\ th[2].cmd.sent
    /\ th[1].cmd.frameID # th[2].cmd.frameID
    /\ th[1].cmd.seq < th[2].cmd.seq
    /\ sinks[th[1].cmd.ch] = <<>>
    /\ sinks[th[2].cmd.ch] # <<>>
    /\ sinks[th[2].cmd.ch][1].of = th[2].cmd.seq

\* the version call has returned its own response while permitJoining, issued after
\* it and answered before it, is still outstanding
C32_WitnessReturned ==
    /\ hlast.op = "NegotiateVersion"
    /\ hlast.got = "response"
    /\ hlast.of = hlast.cmd.seq
    /\ \E u \in Threads :
          /\ th[u].op = "PermitJoining"
          /\ InCommand(u)
          /\ sinks[th[u].cmd.ch] # <<>>

\* a response whose frame id has no sink has been dropped
C32_WitnessDropped ==
    /\ hlast.op = "ezspProcessFrame"
    /\ hlast.route = "none"
    /\ \E t \in Threads : InCommand(t) /\ th[t].cmd.frameID # hlast.frameID

----------------------------------------------------------------------------
(* Claim C33: no acknowledged frame is lost, on SpecFlood                  *)

\* the payload of the k-th frame the host acknowledged in sequence is on the receive
\* queue
Queued(k) == \E i \in DOMAIN recvChan : recvChan[i].tag = k

\* C33: every DATA frame for which the host advanced its expected receive sequence
\* and wrote an ACK has its payload on the receive queue until the EZSP reader takes
\* it, however many frames arrive before the reader drains the 16-slot queue.
C33_NoAcknowledgedFrameLost ==
    \A k \in 1..nAccepted : k <= lastTaken \/ Queued(k)

\* the seventeenth frame has been acknowledged while sixteen payloads were waiting:
\* the expected sequence has advanced to 1 again, the ACK is written, and the payload
\* is nowhere
C33_WitnessLost ==
    /\ last.op = "processFrame"
    /\ last.kind = "DATA"
    /\ nAccepted = 17
    /\ lastTaken = 0
    /\ Len(recvChan) = recvChanCap
    /\ ~Queued(17)
    /\ recvSeq = 1
    /\ tx = <<AckFrames[1]>>

----------------------------------------------------------------------------
(* Claim C34: SendData requires Connected, on SpecRefuse                   *)

\* SendData was called in a state other than Connected
Refused == last'.op = "SendData" /\ state # ashStateConnected

\* C34: in state Disconnected or ResetPending, SendData returns the not-connected
\* error, takes no sequence number, adds nothing to the pending table and writes
\* nothing; the EZSP command that called it fails with that error at once, without
\* the 5-second wait: its next and only step is the return of the send error.
C34_SendDataRequiresConnected ==
    [][ /\ Refused =>
            /\ ~last'.ok
            /\ last'.kind = "not connected"
            /\ sendSeq' = sendSeq
            /\ pending' = pending
            /\ nSent' = nSent
            /\ tx' = <<>>
            /\ ncp' = ncp
            /\ hlast'.op = "PermitJoining" => ~th'[hlast'.t].cmd.sent
        /\ \A t \in Threads :
              (InCommand(t) /\ ~th[t].cmd.sent /\ th'[t] # th[t]) =>
                  /\ hlast'.t = t
                  /\ hlast'.done
                  /\ hlast'.got = "senderr"
                  /\ hlast'.err # ""
                  /\ nTo' = nTo
                  /\ th'[t].op = "idle" ]_vars

\* a command issued before Connect has failed with the send error: the state is
\* Disconnected, no sequence number is used, nothing is pending and no timeout was
\* taken
C34_Witness ==
    /\ hlast.op = "PermitJoining"
    /\ hlast.done
    /\ hlast.got = "senderr"
    /\ state = ashStateDisconnected
    /\ sendSeq = 0
    /\ pending = EmptyMap
    /\ nSent = 0
    /\ nTo = 0

\* the same in state ResetPending, during a Reset of a link that has carried a frame
C34_WitnessResetPending ==
    /\ hlast.op = "PermitJoining"
    /\ hlast.done
    /\ hlast.got = "senderr"
    /\ state = ashStateResetPending
    /\ caller = "reset"
    /\ nSent = 1
    /\ sendSeq = 1

----------------------------------------------------------------------------
(* Claim C35: the reset handshake, on Spec                                 *)

\* the step is the first part of Connect or Reset, up to the select
Begins == last'.op \in {"Connect", "Reset"}

\* what Connect and Reset do before they wait: ResetPending, no connection signal
\* left, the cancel byte written and then the RST frame
EntersResetPending ==
    /\ state' = ashStateResetPending
    /\ connChan' = 0
    /\ Len(tx') = 2
    /\ tx'[1] = <<ashCancelByte>>
    /\ IsControlFrame(<<tx'[2]>>, ashFrameRST)

\* a connection signal appears during the wait only when an RSTACK is processed, and
\* the call returns success only by taking a signal, with the state Connected
SuccessNeedsRstack ==
    /\ (caller # "idle" /\ connChan' > connChan) => Processed("RSTACK")
    /\ (last'.op = "return" /\ last'.ok) =>
            /\ connChan > 0
            /\ connChan' = connChan - 1
            /\ state' = ashStateConnected

\* the call returns its timeout
TimesOut == last'.op = "return" /\ last'.kind = "timeout"

C35_WitnessTimeout ==
    /\ last.op = "return"
    /\ last.kind = "timeout"
    /\ connChan = 0
    /\ state = ashStateResetPending

\* a call has timed out although the RSTACK was processed: the state is Connected and
\* the signal stays behind for the drain of the next Reset
C35_WitnessTimeoutConnected ==
    /\ last.op = "return"
    /\ last.kind = "timeout"
    /\ connChan = 1
    /\ state = ashStateConnected

----------------------------------------------------------------------------
(* Claim C36: the order of the bring-up, on SpecUp                         *)

\* goroutine t is inside NewController before or after the step, and the step is its own
Constructing(t) ==
    /\ th[t].op = "NewController" \/ th'[t].op = "NewController"
    /\ th'[t] # th[t]

\* the step takes NewController from one stage to the next in the order ASH connect,
\* start of the EZSP reader and version(13), version retry, the six configuration
\* values in the order of the table, networkInit, formNetwork; every stage after the
\* connect has its own command outstanding
InOrder(t) ==
    LET p == IF th[t].op = "NewController" THEN th[t].pc ELSE "new"
        q == IF th'[t].op = "NewController" THEN th'[t].pc ELSE "returned"
    IN  /\ <<p, q>> \in {<<"new", "connect">>, <<"connect", "start">>, <<"connect", "returned">>,
                         <<"start", "initial">>, <<"initial", "retry">>,
                         <<"initial", "config">>, <<"initial", "returned">>,
                         <<"retry", "config">>, <<"retry", "returned">>,
                         <<"config", "config">>, <<"config", "networkInit">>,
                         <<"networkInit", "formNetwork">>, <<"networkInit", "returned">>,
                         <<"formNetwork", "returned">>}
        /\ q \in {"initial", "retry"} => th'[t].cmd.frameID = ezspVersion
        /\ q = "config" =>
              /\ th'[t].cmd.frameID = ezspSetConfigurationValue
              /\ th'[t].loc.cfg = IF p = "config" THEN th[t].loc.cfg + 1 ELSE 1
              /\ th'[t].loc.cfg \in 1..6
              /\ th'[t].cmd.sent =>
                    last'.in = ezspFrame(extendedFormat', th'[t].cmd.seq,
                                         ezspSetConfigurationValue,
                                         SetConfigValueParams(stackConfigs[th'[t].loc.cfg][1],
                                                              stackConfigs[th'[t].loc.cfg][2]))
        /\ (p = "config" /\ q = "networkInit") => th[t].loc.cfg = 6
        /\ q = "networkInit" => th'[t].cmd.frameID = ezspNetworkInit
        /\ q = "formNetwork" => th'[t].cmd.frameID = ezspFormNetwork
        /\ q \in {"connect", "start"} => th'[t].cmd = NoCmd

\* formNetwork is issued exactly when networkInit answered a status other than SUCCESS
\* and NETWORK_UP, and must answer SUCCESS
FormIfNeeded(t) ==
    /\ (th[t].op = "NewController" /\ th[t].pc = "networkInit"
            /\ hlast'.got = "response" /\ Len(hlast'.resp) >= 1) =>
          /\ hlast'.resp[1] \in {emberSuccess, emberNetworkUp} =>
                (th'[t].op = "idle" /\ hlast'.err = "" /\ connected')
          /\ hlast'.resp[1] \notin {emberSuccess, emberNetworkUp} =>
                (th'[t].op = "NewController" /\ th'[t].pc = "formNetwork")
    /\ (th[t].op = "NewController" /\ th[t].pc = "formNetwork") =>
          (hlast'.err = "" <=> (hlast'.got = "response" /\ StatusOk(hlast'.resp)))

\* NewController returns in this step, with an error or without
Fails(t) == th[t].op = "NewController" /\ th'[t].op = "idle" /\ hlast'.err # ""
Succeeds(t) == th[t].op = "NewController" /\ th'[t].op = "idle" /\ hlast'.err = ""

\* a failure of the connect, of the version negotiation, of networkInit or of
\* formNetwork
FailsWhere(t) ==
    /\ th[t].pc = "connect" => hlast'.err = "ASH connect"
    /\ th[t].pc \in {"initial", "retry"} =>
          hlast'.err \in {"version negotiation", "version response too short"}
    /\ th[t].pc = "networkInit" => hlast'.err = "networkInit"
    /\ th[t].pc = "formNetwork" => hlast'.err = "form network"
    /\ th[t].pc \in {"connect", "initial", "retry", "networkInit", "formNetwork"}

\* everything is closed: the EZSP layer, the ASH layer and the serial port
AllClosed == ezspStopped' /\ stopped' /\ ~serialOpen'

\* the connected flag is set by the successful return of NewController and by no
\* other step
FlagOnlyOnSuccess ==
    /\ (connected' /\ ~connected) => \E t \in Threads : Succeeds(t)
    /\ \A t \in Threads : Succeeds(t) => (connected' /\ ~ezspStopped' /\ ~stopped' /\ serialOpen')

\* C36 (as stated): construction performs ASH connect, start of the EZSP reader,
\* version negotiation, the six setConfigurationValue commands and networkInit in this
\* order; formNetwork is issued if and only if the networkInit status is neither
\* SUCCESS nor NETWORK_UP and must return SUCCESS; if ASH connect, version
\* negotiation, networkInit or formNetwork fails, construction fails, the layers are
\* closed (EZSP, ASH, serial) and the connected flag is never set.
C36_BringUpOrder ==
    [][ /\ \A t \in Threads : Constructing(t) =>
              /\ InOrder(t)
              /\ FormIfNeeded(t)
              /\ Fails(t) => (FailsWhere(t) /\ AllClosed /\ ~connected')
        /\ FlagOnlyOnSuccess ]_vars

\* the same with the close that the code performs: after a failed ASH connect the
\* serial port alone is closed, and the two layers are left as they are
C36_BringUpOrderSerialOnly ==
    [][ /\ \A t \in Threads : Constructing(t) =>
              /\ InOrder(t)
              /\ FormIfNeeded(t)
              /\ Fails(t) =>
                    /\ FailsWhere(t)
                    /\ ~connected'
                    /\ ~serialOpen'
                    /\ IF th[t].pc = "connect"
                       THEN UNCHANGED <<stopped, ezspStopped>>
                       ELSE AllClosed
        /\ FlagOnlyOnSuccess ]_vars

\* the ASH connect has timed out and NewController has failed: the serial port is
\* closed, the ASH layer is not stopped and its reader is running
C36_WitnessConnectFailed ==
    /\ hlast.op = "NewController"
    /\ hlast.done
    /\ hlast.err = "ASH connect"
    /\ ~serialOpen
    /\ ~stopped
    /\ ~ezspStopped
    /\ reader = "running"

\* formNetwork has failed and everything is closed
C36_WitnessFormFailed ==
    /\ hlast.op = "NewController"
    /\ hlast.done
    /\ hlast.err = "form network"
    /\ ezspStopped /\ stopped /\ ~serialOpen /\ ~connected

\* the network was resumed: nine commands, no formNetwork
C36_WitnessResumed ==
    /\ hlast.op = "NewController"
    /\ hlast.done
    /\ hlast.err = ""
    /\ hlast.pc = "networkInit"
    /\ hlast.resp[1] = emberNetworkUp
    /\ connected

-----------------------------------------------------------------------------
(* C37                                                                       *)

\* the step touched nothing of the ASH layer, wrote nothing and delivered nothing
Absorbed ==
    /\ tx' = <<>>
    /\ UNCHANGED <<state, sendSeq, ackNum, recvSeq, pending, recvChan, connChan, nAccepted>>

\* processFrame found the frame too short or its CRC wrong
BadFrame == last'.op = "processFrame" /\ last'.kind \in {"short", "crc"}

\* readLoop read the byte b outside a frame hand-over
ReadByte(b) == last'.op = "readLoop" /\ last'.in = <<b>>

\* readLoop read an ordinary byte with the accumulator already full
Overflows ==
    /\ last'.op = "readLoop"
    /\ last'.in[1] \notin {ashCancelByte, ashSubstitute, ashXON, ashXOFF, ashFlagByte}
    /\ Len(buf) >= ashMaxFrameLen

\* C37: a frame that is too short or fails its CRC, and the bytes thrown away by a
\* cancel byte, a substitute byte or an accumulator growing past 256 bytes, change
\* nothing of the ASH layer, write nothing and deliver nothing; XON and XOFF are
\* dropped and leave the accumulator as it is, without ending the frame.
C37_LinkErrorsAbsorbed ==
    [][ /\ BadFrame => Absorbed /\ buf' = <<>>
        /\ (ReadByte(ashCancelByte) \/ ReadByte(ashSubstitute) \/ Overflows)
              => Absorbed /\ buf' = <<>> /\ nRx' = nRx
        /\ (ReadByte(ashXON) \/ ReadByte(ashXOFF))
              => Absorbed /\ buf' = buf /\ nRx' = nRx
        /\ (last'.op = "readLoop" /\ Len(buf) < ashMaxFrameLen
              /\ last'.in[1] \in LinkFrameBytes \cup {LinkFiller})
              => buf' = Append(buf, last'.in[1])
      ]_vars

\* a frame with a wrong CRC was dropped while a DATA frame waits for its ACK
C37_Witness ==
    /\ last.op = "processFrame"
    /\ last.kind = "crc"
    /\ state = ashStateConnected
    /\ pending # <<>>

C37_WitnessShort == last.op = "processFrame" /\ last.kind = "short" /\ pending # <<>>

\* the 257th byte of a run emptied the accumulator
C37_WitnessOverflow == last.op = "readLoop" /\ last.n = ashMaxFrameLen /\ buf = <<>>
                          /\ last.in = <<LinkFiller>>

\* 256 bytes are kept
C37_WitnessFull == Len(buf) = ashMaxFrameLen

\* XON arrived in the middle of the ACK frame, which was then processed as sent
C37_WitnessFlow == last.op = "readLoop" /\ last.in = <<ashXON>> /\ buf = <<129, 96>>

C37_WitnessCancel == last.op = "readLoop" /\ last.in = <<ashCancelByte>> /\ last.n = 2

C37_WitnessAck == last.op = "processFrame" /\ last.kind = "ACK" /\ pending = <<>> /\ nSent = 1
-----------------------------------------------------------------------------
(* C38                                                                       *)

ZclRecognised == {16, 32, 33, 34, 35, 40, 41, 48, 49, 66}

\* the records gone through lie one after the other from the first byte, each inside
\* the input; a record with a non-zero status takes three bytes and is skipped, one
\* with status 0, a recognised type and its whole value present is stored, and any
\* other record with status 0 ends the parse
RecordsAsClaimed(data, tr) ==
    \A i \in 1..Len(tr) :
       LET r == tr[i]
           status == data[r.at + 3]
           type == data[r.at + 4]
           valueLen == zclDataTypeLength(type, SubSeq(data, r.at + 5, Len(data)))
           present == type \in ZclRecognised /\ valueLen > 0 /\ r.at + 4 + valueLen <= Len(data)
       IN  /\ r.at = IF i = 1 THEN 0 ELSE tr[i - 1].end
           /\ r.at + 4 <= Len(data)
           /\ r.hi <= Len(data)
           /\ r.id = data[r.at + 1] + 256 * data[r.at + 2]
           /\ r.kind = "skip" <=> status # 0
           /\ r.kind = "skip" => r.end = r.at + 3
           /\ r.kind = "entry" <=> status = 0 /\ present
           /\ r.kind = "entry" => r.end = r.at + 4 + valueLen
           /\ r.kind = "stop" => i = Len(tr)

\* the parse went on until fewer than four bytes were left, unless a record ended it
RanToTheEnd(data, tr) ==
    LET end == IF tr = <<>> THEN 0 ELSE tr[Len(tr)].end
    IN  (tr = <<>> \/ tr[Len(tr)].kind # "stop") => end + 4 > Len(data)

\* the map holds, for each attribute id stored, the value bytes of its last record
MapAsClaimed(data, tr, m) ==
    LET stored == {i \in 1..Len(tr) : tr[i].kind = "entry"}
        latest(i) == \A j \in stored : tr[j].id = tr[i].id => j <= i
    IN  m = {<<tr[i].id, SubSeq(data, tr[i].at + 5, tr[i].end)>> : i \in {j \in stored : latest(j)}}

\* C38: on every input the parser ends without reading past the input, goes through
\* records of attribute id, status and, for status 0, type and value, stores the
\* value of every status-0 record of a recognised type whose value is all there,
\* skips the records with another status, and stops at the first unrecognised type
\* or truncated value keeping what it has; 00 00 00 10 01 gives {0 -> <<1>>}.
C38_ParserTotalAndExact ==
    (arg.fn = "ParseReadAttributesResponse" /\ res.done) =>
        /\ RecordsAsClaimed(arg.data, res.w)
        /\ RanToTheEnd(arg.data, res.w)
        /\ MapAsClaimed(arg.data, res.w, res.v)
        /\ arg.data = <<0, 0, 0, 16, 1>> => res.v = {<<0, <<1>>>>}

\* a failed record was skipped and the value of the record after it stored
C38_Witness ==
    /\ arg.fn = "ParseReadAttributesResponse"
    /\ res.done
    /\ arg.data = <<0, 0, 134, 1, 0, 0, 16, 1>>
    /\ Len(res.w) = 2
    /\ res.w[1].kind = "skip"
    /\ res.w[2].kind = "entry"
    /\ res.v = {<<1, <<1>>>>}

\* an unrecognised type ended the parse and the value before it was kept
C38_WitnessStop ==
    /\ arg.fn = "ParseReadAttributesResponse"
    /\ res.done
    /\ arg.data = <<0, 0, 0, 16, 1, 1, 0, 0, 1, 0>>
    /\ res.w[2].kind = "stop"
    /\ res.v = {<<0, <<1>>>>}

C38_WitnessExample ==
    /\ arg.fn = "ParseReadAttributesResponse"
    /\ res.done
    /\ arg.data = <<0, 0, 0, 16, 1>>
    /\ res.v = {<<0, <<1>>>>}

\* an octet string whose length byte promises more than the input holds
C38_WitnessTruncated ==
    /\ arg.fn = "ParseReadAttributesResponse"
    /\ res.done
    /\ arg.data = <<1, 0, 0, 66, 1, 16, 0, 0, 0, 66, 16>>
    /\ res.v = {<<1, <<1, 16>>>>}

\* the same attribute twice: the later value is the one kept
C38_WitnessTwice ==
    /\ arg.fn = "ParseReadAttributesResponse"
    /\ res.done
    /\ arg.data = <<0, 0, 0, 16, 1, 0, 0, 0, 16, 0>>
    /\ res.v = {<<0, <<0>>>>}
-----------------------------------------------------------------------------
(* C39                                                                       *)

\* a call of SetDeviceState that had looked up its device returns an error
SetFails == hlast'.op = "SetDeviceState" /\ hlast'.done /\ hlast'.err # ""
               /\ hlast'.loc.kd # 0

\* the unicast of the state key of the call that returns had been answered with success
StateKeyWritten ==
    /\ hlast'.loc.in.state.t = "string"
    /\ \/ hlast'.pc = "level"
       \/ hlast'.pc = "onoff" /\ hlast'.got = "response" /\ StatusOk(hlast'.resp)

\* the cached state of a device changes only in the step in which SetDeviceState
\* takes the success answer to the unicast of a key, and by that key alone
KeyEchoedOnSuccess ==
    \A k \in DOMAIN objs \cap DOMAIN objs' :
       objs'[k].State # objs[k].State =>
          /\ hlast'.op = "SetDeviceState"
          /\ hlast'.loc.kd = k
          /\ hlast'.got = "response"
          /\ StatusOk(hlast'.resp)
          /\ hlast'.pc \in {"onoff", "level"}
          /\ objs'[k].State =
                IF hlast'.pc = "onoff"
                THEN Put(objs[k].State, "state", Str(ToUpper(hlast'.loc.in.state.s)))
                ELSE Put(objs[k].State, "brightness", Num("int", hlast'.loc.level))

\* C39 as stated: a call that returns an error leaves the cached state of its device
\* as it was when the call began
C39_CacheUnchangedOnError ==
    [][SetFails => objs'[hlast'.loc.kd].State = hlast'.loc.before]_vars

\* C39: a key of the cached state is written only after the unicast for that key was
\* answered with success; a call that returns an error leaves every key whose unicast
\* did not succeed as it was when the call began, and leaves the state key at its new
\* value when the unicast of the state key had succeeded before the brightness key
\* failed.
C39_CacheFollowsSuccess ==
    [][ /\ KeyEchoedOnSuccess
        /\ SetFails =>
              objs'[hlast'.loc.kd].State =
                 IF StateKeyWritten
                 THEN Put(hlast'.loc.before, "state", Str(ToUpper(hlast'.loc.in.state.s)))
                 ELSE hlast'.loc.before
      ]_vars

\* state "on" was sent and echoed, the brightness unicast timed out, and the call
\* returned an error with the cached state changed
C39_Witness ==
    /\ hlast.op = "SetDeviceState"
    /\ hlast.done
    /\ hlast.pc = "level"
    /\ hlast.err = "timeout"
    /\ hlast.loc.in = [state |-> Str(strLowerOn), brightness |-> Num("int", 200)]
    /\ objs[hlast.loc.kd].State = Put(hlast.loc.before, "state", Str(strON))
    /\ objs[hlast.loc.kd].State # hlast.loc.before

\* the same with a brightness of the wrong type
C39_WitnessValidation ==
    /\ hlast.op = "SetDeviceState"
    /\ hlast.done
    /\ hlast.pc = "onoff"
    /\ hlast.err = "Validation"
    /\ objs[hlast.loc.kd].State # hlast.loc.before

\* the unicast of the only key was answered with another status: nothing changed
C39_WitnessRefused ==
    /\ hlast.op = "SetDeviceState"
    /\ hlast.done
    /\ hlast.err = "status"
    /\ hlast.loc.in.state.t = "absent"
    /\ objs[hlast.loc.kd].State = hlast.loc.before

-----------------------------------------------------------------------------
(* C40                                                                       *)

\* a step of a call of SetDeviceState on a known device with a numeric brightness
NumericLevel ==
    /\ hlast'.op = "SetDeviceState"
    /\ hlast'.loc.kd # 0
    /\ hlast'.loc.in.brightness.t \in {"int", "float64", "json.Number"}

\* the step issues the unicast of the brightness key
LevelIssued == NumericLevel /\ hlast'.issued /\ th'[hlast'.t].pc = "level"

\* the call returns after the unicast of the brightness key succeeded
LevelStored == NumericLevel /\ hlast'.done /\ hlast'.err = "" /\ hlast'.pc = "level"

\* C40: for every numeric brightness the level byte of the Move-to-level command and
\* the cached brightness lie in 0..254 and are the value asked for.
C40_BrightnessInRange ==
    [][ /\ LevelIssued =>
              /\ hlast'.loc.in.brightness.n \in 0..254
              /\ IsUnicast(objs[hlast'.loc.kd], 8, 4, <<hlast'.loc.in.brightness.n, 10, 0>>)
        /\ LevelStored =>
              /\ hlast'.loc.in.brightness.n \in 0..254
              /\ objs'[hlast'.loc.kd].State["brightness"]
                    = Num("int", hlast'.loc.in.brightness.n)
      ]_vars

\* what the code does: the level sent and then cached is one byte, one of the values
\* uint8 can give for the input, and the value asked for when that lies in 0..255
C40_LevelIsUint8 ==
    [][ /\ LevelIssued =>
              \E level \in brightnessLevels(hlast'.loc.in.brightness) :
                 /\ level \in 0..255
                 /\ th'[hlast'.t].loc.level = level
                 /\ IsUnicast(objs[hlast'.loc.kd], 8, 4, <<level, 10, 0>>)
                 /\ hlast'.loc.in.brightness.n \in 0..255 => level = hlast'.loc.in.brightness.n
        /\ LevelStored =>
              objs'[hlast'.loc.kd].State["brightness"] = Num("int", hlast'.loc.level)
      ]_vars

\* brightness 300 given as an int was sent and cached as 44
C40_WitnessWrapped ==
    /\ hlast.op = "SetDeviceState"
    /\ hlast.done
    /\ hlast.err = ""
    /\ hlast.loc.in.brightness = Num("int", 300)
    /\ objs[hlast.loc.kd].State["brightness"] = Num("int", 44)

\* brightness 255 was sent and cached as it is, outside 0..254
C40_WitnessAboveRange ==
    /\ hlast.op = "SetDeviceState"
    /\ hlast.done
    /\ hlast.err = ""
    /\ hlast.loc.in.brightness = Num("int", 255)
    /\ objs[hlast.loc.kd].State["brightness"] = Num("int", 255)

\* brightness -1 given as a float64, as the turn_on handler passes it, cached as 255
C40_WitnessNegativeFloat ==
    /\ hlast.op = "SetDeviceState"
    /\ hlast.done
    /\ hlast.err = ""
    /\ hlast.loc.in.brightness = Num("float64", -1)
    /\ objs[hlast.loc.kd].State["brightness"] = Num("int", 255)

\* brightness 254 was sent and cached as asked
C40_WitnessInRange ==
    /\ hlast.op = "SetDeviceState"
    /\ hlast.done
    /\ hlast.err = ""
    /\ hlast.loc.in.brightness = Num("int", 254)
    /\ objs[hlast.loc.kd].State["brightness"] = Num("int", 254)
====
